---- MODULE Spec2Model ----
(***************************************************************************)
(* Model of the vyper kernel scheduler (vcore/src/sched), the interrupt   *)
(* handlers that drive it (vcore/src/cpu/interrupts.rs) and the spinlocks  *)
(* that tasks take while interrupts are enabled.                           *)
(*                                                                         *)
(* One CPU.  The task at index `current` of the queue is the one that is   *)
(* executing.  Code that runs inside without_interrupts, or inside an      *)
(* interrupt handler, is one atomic action; everything else can be         *)
(* interrupted between two actions.                                        *)
(***************************************************************************)
EXTENDS Integers, Sequences, FiniteSets, TLC

\* ---------------------------------------------------------------- bounds
\* ids handed out by NEXT_ID stay below MaxId
MaxId == 3
MaxTick == 2
MaxSleep == 1
\* page frames described by the boot memory map of the allocator runs
MaxPage == 3
\* usable page frames of the machine the scheduler and the loader run on
BootPages == 26
\* pages of the PT_LOAD segment of a program
MaxSegPages == 2
\* calls of spawn_elf in one run (kmain makes two)
MaxSpawns == 3
\* bytes a read or write asks for
MaxLen == 2
\* descriptors a task holds open beside the reserved ones
MaxOpen == 2
\* characters of a path handed to normalize_path and resolve_path
MaxPathLen == 5
\* characters of a path handed to Vfs::resolve
MaxReqLen == 6
\* characters of a path looked up on the FAT32 volume
MaxFatLen == 4
\* key presses that reach the keyboard buffer
MaxKeys == 3
\* bytes a file holds
MaxFile == 2
\* data clusters of the FAT32 volume
MaxClusters == 5
\* clusters a chain written or found on the volume needs
MaxChain == 3
\* add_dir_entry calls on a directory
MaxAdds == 4

\* ------------------------------------------------------- program values
\* Option<u64>::None of Task.wake_at
NoWake == -1
\* no index, Option<usize>::None of next_ready
NoIndex == -1
\* no task holds the lock
NoTask == -1
\* the page-table root that is live when the scheduler starts
KernelPml4 == 1
\* a value of rdx that is no page-table root
JunkCr3 == 7

TaskStates == {"Ready", "Running", "Sleeping", "Dead"}

VARIABLES
    tasks,      \* Scheduler.tasks : sequence of task records
    current,    \* Scheduler.current : 0-based index into tasks
    ticks,      \* TICKS
    next_id,    \* NEXT_ID
    cpu,        \* "ok" | "irq_spin" | "crashed"
    iflag,      \* RFLAGS.IF
    sched_lock, \* SCHEDULER mutex held
    vfs_lock,   \* id of the task holding the VFS mutex, or NoTask
    cr3,        \* active page-table root
    last,       \* the step that produced this state: op, whether schedule()
                \* completed its queue update in it, whether it switched
    served      \* task id -> the ids schedule() selected since that task is
                \* Ready without a break

\* mem/pmm.rs
VARIABLES
    bitmap,      \* BitmapAllocator.bitmap : page -> bit set (frame in use)
    total_pages, \* BitmapAllocator.total_pages
    free_pages,  \* BitmapAllocator.free_pages
    handed,      \* addresses alloc() returned that were not freed since
    pmm_last     \* the allocator call that produced this state

\* mem/vmm.rs, elf.rs: the lower half of the page table that is live while
\* the kernel loads programs, and what the loader put into the frames
VARIABLES
    page_map,    \* mapped user pages : <<P4, P3, P2, P1>> -> frame
    page_tables, \* page tables below the PML4 : index path -> frame
    phys,        \* frame -> what was written to it last
    owned,       \* task id -> the frames its spawn_elf allocated and loaded
    elf_last     \* the spawn_elf call that produced this state

\* vfs/fd.rs, cpu/syscall.rs: the descriptor table of the calling task
VARIABLES
    root_dir,    \* the entries vfs::readdir returns for the directory now
    fds,         \* FdTable.fds : slot -> descriptor, kind "None" for None
    fd_last      \* the table or system call that produced this state

\* vfs/mod.rs: strings are sequences of characters
VARIABLES
    mounts,      \* Vfs.mounts : the mount paths, in the order of the Vec
    vfs_last     \* the VFS call that produced this state

\* vfs/fat32.rs
VARIABLES
    fat_last     \* the call into the FAT32 volume that produced this state

schedVars == <<tasks, current, ticks, next_id, cpu, iflag, sched_lock, vfs_lock, cr3, last, served>>

pmmVars == <<bitmap, total_pages, free_pages, handed, pmm_last>>

vmmVars == <<page_map, page_tables, phys, owned, elf_last>>

fdVars == <<root_dir, fds, fd_last>>

vfsVars == <<mounts, vfs_last>>

fatVars == <<fat_last>>


\* drivers/keyboard.rs and the stdin branch of SYS_READ (cpu/syscall.rs)
VARIABLES
    kb,          \* KEYBOARD: the characters between read_pos and write_pos
    pressed,     \* key presses so far
    rd           \* the read(0, buf, len) call in progress or last returned

kbVars == <<kb, pressed, rd>>


\* vfs/tmpfs.rs
VARIABLES
    tmp_root,    \* TmpFs::root: the nodes below the root by their path
    fh,          \* the open TmpFileHandle, if any
    fh_last,     \* the call on the filesystem or the handle that produced this state
    hist         \* what was written to a new file and read back from it

tmpVars == <<tmp_root, fh, fh_last, hist>>


\* the FAT32 volume on the block device (vfs/fat32.rs)
VARIABLES
    fat,         \* the file allocation table: the entry of every cluster
    store,       \* the bytes of every data cluster
    ch_last,     \* the call on a cluster chain that produced this state
    dir_last     \* the call on a directory that produced this state

diskVars == <<fat, store, ch_last, dir_last>>


\* vfs/fat32.rs: a file of the volume and the handle open on it
VARIABLES
    ffile,       \* the bytes of the file on the volume: its chain cut to its size
    ffh,         \* the open FatFileHandle, if any
    ffh_last     \* the call on the handle that produced this state

fhVars == <<ffile, ffh, ffh_last>>


\* vfs/fat32.rs: the FAT region of the volume, all of its copies
VARIABLES
    fats,        \* fats[n][c]: the 32-bit entry of cluster c in FAT copy n, as
                 \* its upper 4 bits and its low 28 bits
    hi0,         \* the upper 4 bits of each entry when the volume was mounted
    fc_last      \* the driver operation that produced this state

copyVars == <<fats, hi0, fc_last>>


\* drivers/keyboard.rs and cpu/interrupts.rs: the keyboard interrupt path
VARIABLES
    KEYBOARD,    \* the driver's Keyboard behind its spinlock
    fed,         \* a Keyboard that handle_scancode is applied to for every
                 \* scancode an interrupt read, and that every read_char pops
    returned,    \* the bytes the read_char() calls returned, in order
    expected,    \* the bytes popped from `fed`, in order
    irqs,        \* keyboard interrupts taken
    reads        \* read_char() calls made

irqVars == <<KEYBOARD, fed, returned, expected, irqs, reads>>


\* cpu/syscall.rs, cpu/gdt.rs: the kernel stacks the tasks enter the kernel on
VARIABLES
    SYSCALL_STACK, \* slot -> the task whose frame the slot holds, or NoTask
    rsp0_stack,    \* TSS_STORAGE.privilege_stack_table[0], likewise
    user_rsp,      \* CPU_LOCAL.user_rsp: the task whose user rsp it holds
    place,         \* task id -> where the task is
    running,       \* the task the CPU executes
    st_last        \* the step that produced this state

stackVars == <<SYSCALL_STACK, rsp0_stack, user_rsp, place, running, st_last>>

otherVars == <<pmmVars, vmmVars, fdVars, vfsVars, fatVars, kbVars, tmpVars, diskVars, fhVars, copyVars, irqVars, stackVars>>

vars == <<schedVars, otherVars>>

\* ------------------------------------------------------------- helpers
At(ts, i) == ts[i + 1]

Indices(ts) == 0 .. (Len(ts) - 1)

RemoveAt(ts, i) == SubSeq(ts, 1, i) \o SubSeq(ts, i + 2, Len(ts))

Ids(ts) == {ts[k].id : k \in 1 .. Len(ts)}

RunningCount(ts) == Cardinality({k \in 1 .. Len(ts) : ts[k].state = "Running"})

\* Task (task.rs) has no address-space field: address_space = 0 says that the
\* task owns none.  sleep_until is the local `current_tick + ticks` of sleep().
\* pc is where the task is in its own code; a task switched out inside
\* schedule() has pc at the point it returns to.
\* stack_ptr says what Task.stack_ptr points at: "null" (the 0 of
\* kernel_task), "initial" (the frame Task::new wrote), "saved" (the frame
\* switch_context pushed when the task was switched out last) or "stale" (a
\* frame the task was resumed from since).
\* Task::kernel_task
kernel_task(id) ==
    [id |-> id, state |-> "Running", wake_at |-> NoWake, pc |-> "run",
     sleep_until |-> 0, address_space |-> 0, stack_ptr |-> "null"]

\* Task::new / Task::new_user
new_task(id) ==
    [id |-> id, state |-> "Ready", wake_at |-> NoWake, pc |-> "run",
     sleep_until |-> 0, address_space |-> 0, stack_ptr |-> "initial"]

\* ------------------------------------------------ Scheduler::reap_dead
RECURSIVE reap_from(_, _, _)
reap_from(ts, cur, i) ==
    IF i = 0 THEN [tasks |-> ts, current |-> cur]
    ELSE LET j == i - 1 IN
         IF j # cur /\ At(ts, j).state = "Dead"
         THEN reap_from(RemoveAt(ts, j), IF j < cur THEN cur - 1 ELSE cur, j)
         ELSE reap_from(ts, cur, j)

\* reap loop that starts one slot short of the end of the queue
reap_dead_short(ts, cur) == reap_from(ts, cur, Len(ts) - 1)

reap_dead(ts, cur) == reap_from(ts, cur, Len(ts))

\* ------------------------------------------------ schedule: wake loop
wake_sleepers(ts, tick) ==
    [k \in 1 .. Len(ts) |->
        IF ts[k].state = "Sleeping" /\ ts[k].wake_at # NoWake /\ tick >= ts[k].wake_at
        THEN [ts[k] EXCEPT !.state = "Ready", !.wake_at = NoWake]
        ELSE ts[k]]

\* ----------------------------------------------- Scheduler::next_ready
RECURSIVE next_ready_from(_, _, _)
next_ready_from(ts, cur, i) ==
    IF i > Len(ts) THEN NoIndex
    ELSE LET idx == (cur + i) % Len(ts) IN
         IF At(ts, idx).state = "Ready" THEN idx
         ELSE next_ready_from(ts, cur, i + 1)

\* scan that starts at the head of the queue, not after current
next_ready_head(ts, cur) == next_ready_from(ts, Len(ts) - 1, 1)

next_ready(ts, cur) == next_ready_from(ts, cur, 1)

\* ------------------------------------------------------------ schedule
\* The queue update of schedule(), done under the lock with interrupts off.
\* pick that leaves the outgoing task Running
schedule_pick_keep(ts, cur, nxt) == [ts EXCEPT ![nxt + 1].state = "Running"]

schedule_pick(ts, cur, nxt) ==
    LET t1 == IF At(ts, cur).state = "Running"
              THEN [ts EXCEPT ![cur + 1].state = "Ready"]
              ELSE ts
    IN [t1 EXCEPT ![nxt + 1].state = "Running"]

schedule(ts, cur, tick) ==
    LET r == reap_dead(ts, cur)
        w == wake_sleepers(r.tasks, tick)
        nxt == next_ready(w, r.current)
    IN IF nxt = NoIndex
       THEN [tasks |-> w, current |-> r.current, switch |-> FALSE, from |-> r.current]
       ELSE [tasks |-> schedule_pick(w, r.current, nxt), current |-> nxt,
             switch |-> TRUE, from |-> r.current]

\* ------------------------------------------------------ switch_context
\* new_cr3 is the value of rdx at the call; schedule() passes only old_sp and
\* new_sp, so rdx is whatever the caller left in it (RunSchedule picks it).
switch_context(old_cr3, new_cr3) == IF new_cr3 # 0 THEN new_cr3 ELSE old_cr3

Cur == At(tasks, current)

\* self says that switch_context got the stack_ptr of one task as old_sp and
\* as new_sp; loaded is what the new_sp that schedule() read points at
Step(op, s) ==
    [op |-> op, sched |-> TRUE, switch |-> s.switch,
     self |-> s.switch /\ s.current = s.from,
     loaded |-> IF s.switch THEN At(s.tasks, s.current).stack_ptr ELSE "none"]

NoSched(op) == [op |-> op, sched |-> FALSE, switch |-> FALSE, self |-> FALSE, loaded |-> "none"]

\* switch_context(old_sp, new_sp): the registers are pushed and rsp is stored
\* through old_sp, then rsp is loaded from new_sp and the frame there popped
switch_frames(ts, from, to) ==
    [k \in 1 .. Len(ts) |->
        IF k = to + 1 THEN [ts[k] EXCEPT !.stack_ptr = "stale"]
        ELSE IF k = from + 1 THEN [ts[k] EXCEPT !.stack_ptr = "saved"]
        ELSE ts[k]]

\* the ids of the tasks of a queue, and of its Ready tasks
IdsOf(ts) == {ts[k].id : k \in 1 .. Len(ts)}

ReadyIds(ts) == {ts[k].id : k \in {j \in 1 .. Len(ts) : ts[j].state = "Ready"}}

\* the selections each task has waited through, after a step from queue ts
\* to queue ts2 in which schedule() selected the tasks in sel
Serve(ts, ts2, sel) ==
    [id \in 0 .. MaxId |->
        IF id \notin ReadyIds(ts2) THEN {}
        ELSE IF id \in ReadyIds(ts) THEN (served[id] \cup sel) \cap IdsOf(ts2)
        ELSE sel]

\* the part of schedule() every caller shares: ts is the queue the caller
\* left (its own continuation already recorded in pc)
RunSchedule(op, ts) ==
    LET s == schedule(ts, current, ticks) IN
    /\ tasks' = IF s.switch THEN switch_frames(s.tasks, s.from, s.current) ELSE s.tasks
    /\ current' = s.current
    /\ last' = Step(op, s)
    /\ served' = Serve(tasks, s.tasks, IF s.switch THEN {At(s.tasks, s.current).id} ELSE {})
    /\ IF s.switch
       THEN /\ \E rdx \in {0, JunkCr3} : cr3' = switch_context(cr3, rdx)
            /\ cpu' = IF s.current = s.from THEN "crashed" ELSE "ok"
       ELSE /\ cr3' = cr3
            /\ cpu' = cpu

\* ------------------------------------------- physical memory (mem/pmm.rs)
PAGE_SIZE == 4096

\* Option<u64>::None of alloc()
NoFrame == -1

\* the for loop of alloc_page from page i on: the first page whose bit is
\* clear, or NoIndex
RECURSIVE first_clear(_, _, _)
first_clear(bm, n, i) ==
    IF i >= n THEN NoIndex
    ELSE IF ~bm[i] THEN i
    ELSE first_clear(bm, n, i + 1)

alloc_page_noset(bm, n, fp) ==
    LET i == first_clear(bm, n, 0) IN
    IF i = NoIndex
    THEN [bitmap |-> bm, free_pages |-> fp, ret |-> NoFrame]
    ELSE [bitmap |-> bm, free_pages |-> fp - 1, ret |-> i * PAGE_SIZE]

alloc_page(bm, n, fp) ==
    LET i == first_clear(bm, n, 0) IN
    IF i = NoIndex
    THEN [bitmap |-> bm, free_pages |-> fp, ret |-> NoFrame]
    ELSE [bitmap |-> [bm EXCEPT ![i] = TRUE], free_pages |-> fp - 1,
          ret |-> i * PAGE_SIZE]

free_page_untested(bm, n, fp, addr) ==
    LET page == addr \div PAGE_SIZE IN
    IF page < n
    THEN [bitmap |-> [bm EXCEPT ![page] = FALSE], free_pages |-> fp + 1]
    ELSE [bitmap |-> bm, free_pages |-> fp]

free_page(bm, n, fp, addr) ==
    LET page == addr \div PAGE_SIZE IN
    IF page < n /\ bm[page]
    THEN [bitmap |-> [bm EXCEPT ![page] = FALSE], free_pages |-> fp + 1]
    ELSE [bitmap |-> bm, free_pages |-> fp]

\* the pages init clears for one USABLE entry: start_page .. end_page - 1
entry_pages(e) ==
    ((e.base + PAGE_SIZE - 1) \div PAGE_SIZE) .. (((e.base + e.length) \div PAGE_SIZE) - 1)

\* free_pages after the loop over the entries k .. Len(memmap): one increment
\* for every page of every USABLE entry
RECURSIVE counted_free(_, _)
counted_free(memmap, k) ==
    IF k > Len(memmap) THEN 0
    ELSE (IF memmap[k].usable THEN Cardinality(entry_pages(memmap[k])) ELSE 0)
         + counted_free(memmap, k + 1)

\* init: the allocator it stores in PMM
pmm_init(memmap) ==
    LET ends == {memmap[k].base + memmap[k].length : k \in 1 .. Len(memmap)}
        highest_addr == CHOOSE e \in ends : \A f \in ends : f <= e
        total == (highest_addr + PAGE_SIZE - 1) \div PAGE_SIZE
        bitmap_size == (total + 7) \div 8
        fits == {k \in 1 .. Len(memmap) :
                    memmap[k].usable /\ memmap[k].length >= bitmap_size}
        bitmap_addr == memmap[CHOOSE k \in fits : \A j \in fits : k <= j].base
        cleared == UNION {entry_pages(memmap[k]) :
                             k \in {j \in 1 .. Len(memmap) : memmap[j].usable}}
        bitmap_pages == (bitmap_addr \div PAGE_SIZE) ..
                        (((bitmap_addr + bitmap_size + PAGE_SIZE - 1) \div PAGE_SIZE) - 1)
    IN [bitmap |-> [p \in 0 .. (total - 1) |-> p \notin cleared \/ p \in bitmap_pages],
        total_pages |-> total,
        free_pages |-> counted_free(memmap, 1)
                       - Cardinality(bitmap_pages \cap cleared)]

\* the memory map of the machine the scheduler and the loader run on: one
\* reserved page, then BootPages usable ones
BootMemmap ==
    <<[base |-> 0, length |-> PAGE_SIZE, usable |-> FALSE],
      [base |-> PAGE_SIZE, length |-> BootPages * PAGE_SIZE, usable |-> TRUE]>>

PmmCall(op, arg, ret, held, acted) ==
    [op |-> op, arg |-> arg, ret |-> ret, held |-> held, acted |-> acted]

PmmStarts(memmap) ==
    /\ bitmap = pmm_init(memmap).bitmap
    /\ total_pages = pmm_init(memmap).total_pages
    /\ free_pages = pmm_init(memmap).free_pages
    /\ handed = {}
    /\ pmm_last = PmmCall("init", 0, 0, FALSE, FALSE)

BootPmm == PmmStarts(BootMemmap)

\* Result::Ok
NoErr == ""

ElfCall(op, image, err, free_before, calls) ==
    [op |-> op, image |-> image, err |-> err, free_before |-> free_before,
     calls |-> calls]

\* no user page is mapped when kmain reaches its first spawn_elf
BootVmm ==
    /\ page_map = <<>>
    /\ page_tables = <<>>
    /\ phys = <<>>
    /\ owned = <<>>
    /\ elf_last = ElfCall("boot", "", NoErr, 0, 0)

\* ------------------------------------------ descriptor table (vfs/fd.rs)
MAX_FDS == 64

\* Option<FdKind>: File stands for File(handle); a Directory carries the
\* lengths of the names of its entries and the read position
Fd(kind, entries, position) ==
    [kind |-> kind, entries |-> entries, position |-> position]

None == Fd("None", <<>>, 0)

\* FdTable::new
FdTable_new ==
    [i \in 0 .. (MAX_FDS - 1) |->
        IF i = 0 THEN Fd("Stdin", <<>>, 0)
        ELSE IF i = 1 THEN Fd("Stdout", <<>>, 0)
        ELSE IF i = 2 THEN Fd("Stderr", <<>>, 0)
        ELSE None]

\* VfsResult / the u64 a system call returns
FdCall(op, fd, ok, ret, err) ==
    [op |-> op, fd |-> fd, ok |-> ok, ret |-> ret, err |-> err]

BootFd ==
    /\ fds = FdTable_new
    /\ fd_last = FdCall("new", 0, TRUE, 0, "")
    /\ root_dir = <<1>>

VfsCall(op, arg, ok, norm, mount, sub, err) ==
    [op |-> op, arg |-> arg, ok |-> ok, norm |-> norm, mount |-> mount,
     sub |-> sub, err |-> err]

\* Vfs::new
BootVfs ==
    /\ mounts = <<>>
    /\ vfs_last = VfsCall("new", <<>>, TRUE, <<>>, <<>>, <<>>, "")

\* a call through the VFS, the clusters the device fails to read during it,
\* the VfsResult, and whether the device failed
FatCall(op, path, bad, r) ==
    [op |-> op, path |-> path, bad |-> bad, ok |-> r.ok, err |-> r.err, io |-> r.io]

BootFat == fat_last = FatCall("new", <<>>, {}, [ok |-> TRUE, err |-> "", io |-> FALSE])


\* a read on fd 0: where the handler is, its len, the bytes stored in buf
StdinRead(pc, len, buf) == [pc |-> pc, len |-> len, buf |-> buf]

\* Keyboard::new()
BootKb ==
    /\ kb = <<>>
    /\ pressed = 0
    /\ rd = StdinRead("none", 0, <<>>)


\* Node::File(data) and Node::Directory: the entries of a directory are the
\* nodes whose path extends its own by one name
File(data) == [file |-> TRUE, data |-> data]

Directory == [file |-> FALSE, data |-> <<>>]

OpenFlags(read, write, create, truncate, append) ==
    [read |-> read, write |-> write, create |-> create,
     truncate |-> truncate, append |-> append]

O_RDONLY == OpenFlags(TRUE, FALSE, FALSE, FALSE, FALSE)

\* TmpFileHandle { data, position, path, flags }
TmpFileHandle(data, position, path, flags) ==
    [open |-> TRUE, data |-> data, position |-> position, path |-> path,
     flags |-> flags]

NoHandle == [TmpFileHandle(<<>>, 0, <<>>, O_RDONLY) EXCEPT !.open = FALSE]

\* a call, its VfsResult, and whether the kernel panicked in it
TmpCall(op, ok, err, n, panic) ==
    [op |-> op, ok |-> ok, err |-> err, n |-> n, panic |-> panic]

NoHist ==
    [fresh |-> FALSE, closed |-> FALSE, D |-> <<>>,
     reading |-> FALSE, got |-> <<>>, eof |-> FALSE]

\* TmpFs::new()
BootTmp ==
    /\ tmp_root = <<>>
    /\ fh = NoHandle
    /\ fh_last = TmpCall("new", TRUE, "", 0, FALSE)
    /\ hist = NoHist


\* bpb.root_cluster
root_cluster == 2

FAT32_EOC == 268435448

FAT32_FREE == 0

SECTOR_SIZE == 512

\* Bpb::bytes_per_cluster with 512-byte sectors and 1 sector per cluster
bytes_per_cluster == SECTOR_SIZE * 1

\* the clusters of the volume: 2 .. total_clusters + 1
ClusterIds == 2 .. (MaxClusters + 1)

\* a cluster as zero_cluster leaves it
zeroed == [k \in 1 .. bytes_per_cluster |-> 0]

\* a call on a chain: the start cluster and data passed, the result, and
\* what read_chain returned
ChainCall(op, start, len, ok, first, data) ==
    [op |-> op, start |-> start, len |-> len, ok |-> ok, first |-> first,
     data |-> data]

\* a call on a directory: the name passed, the result, whether the kernel
\* panicked in it, and the names read_directory listed before and after
DirCall(op, name, ok, err, panic, before, after) ==
    [op |-> op, name |-> name, ok |-> ok, err |-> err, panic |-> panic,
     before |-> before, after |-> after]

\* a formatted volume: the root directory is one cluster without entries
BootDisk ==
    /\ fat = [c \in ClusterIds |-> IF c = root_cluster THEN FAT32_EOC ELSE FAT32_FREE]
    /\ store = [c \in ClusterIds |-> zeroed]
    /\ ch_last = ChainCall("new", 0, 0, TRUE, 0, <<>>)
    /\ dir_last = DirCall("new", <<>>, TRUE, "", FALSE, <<>>, <<>>)


\* FatFileHandle { position, data, dirty, flags }; flags holds the bits of OpenFlags
FatFileHandle(position, data, dirty, flags) ==
    [open |-> TRUE, position |-> position, data |-> data, dirty |-> dirty,
     flags |-> flags]

\* a call on the handle: before is the handle's data when it was made
FhCall(op, ok, err, before, buf, panic) ==
    [op |-> op, ok |-> ok, err |-> err, before |-> before, buf |-> buf, panic |-> panic]

\* a file without bytes and no handle on it
BootFh ==
    /\ ffile = <<>>
    /\ ffh = [FatFileHandle(0, <<>>, FALSE, 0) EXCEPT !.open = FALSE]
    /\ ffh_last = FhCall("new", TRUE, "", <<>>, <<>>, FALSE)


\* bpb.num_fats
num_fats == 2

\* a 32-bit FAT entry: existing & 0xF0000000 is .hi, existing & 0x0FFFFFFF is .lo
Entry(hi, lo) == [hi |-> hi, lo |-> lo]

\* a mounted volume: the copies are identical, only the root cluster is in
\* use, and the reserved bits are zero for some clusters and set for others
BootCopies ==
    /\ hi0 = [c \in ClusterIds |-> IF c % 2 = 0 THEN 0 ELSE (c * 5) % 16]
    /\ fats = [n \in 1 .. num_fats |->
                  [c \in ClusterIds |->
                      Entry(hi0[c], IF c = root_cluster THEN FAT32_EOC ELSE FAT32_FREE)]]
    /\ fc_last = "new"


\* struct Keyboard; `unread` is buffer[read_pos .. write_pos)
Keyboard(unread, read_pos, write_pos, shift_pressed, caps_lock, release_next) ==
    [unread |-> unread, read_pos |-> read_pos, write_pos |-> write_pos,
     shift_pressed |-> shift_pressed, caps_lock |-> caps_lock,
     release_next |-> release_next]

\* Keyboard::new()
BootIrq ==
    /\ KEYBOARD = Keyboard(<<>>, 0, 0, FALSE, FALSE, FALSE)
    /\ fed = KEYBOARD
    /\ returned = <<>>
    /\ expected = <<>>
    /\ irqs = 0
    /\ reads = 0


\* a step of the kernel entry paths: the task that made it, and the tasks
\* that were switched out with saved context in memory the step wrote
StackStep(op, by, victims) == [op |-> op, by |-> by, victims |-> victims]

\* kmain has spawned the user tasks and runs as task 0; nothing has entered
\* the kernel through syscall or from user mode yet
BootStacks ==
    /\ SYSCALL_STACK = [slot \in 1 .. 3 |-> NoTask]
    /\ rsp0_stack = [slot \in 1 .. 2 |-> NoTask]
    /\ user_rsp = NoTask
    /\ place = [t \in 0 .. (MaxId - 1) |-> IF t = 0 THEN "kernel" ELSE "new"]
    /\ running = 0
    /\ st_last = StackStep("init", 0, {})

BootOther == BootPmm /\ BootVmm /\ BootFd /\ BootVfs /\ BootFat /\ BootKb /\ BootTmp /\ BootDisk /\ BootFh /\ BootCopies /\ BootIrq /\ BootStacks

BootSched ==
    /\ tasks = <<kernel_task(0)>>
    /\ current = 0
    /\ ticks = 0
    /\ next_id = 1
    /\ cpu = "ok"
    /\ iflag = TRUE
    /\ sched_lock = FALSE
    /\ vfs_lock = NoTask
    /\ cr3 = KernelPml4
    /\ last = NoSched("init")
    /\ served = [id \in 0 .. MaxId |-> {}]

Init == BootSched /\ BootOther

Executing == cpu = "ok" /\ iflag

\* --------------------------------------------------------------- spawn
spawn_lock ==
    /\ Executing /\ Cur.pc = "run"
    /\ next_id < MaxId
    /\ next_id' = next_id + 1
    /\ sched_lock' = TRUE
    /\ tasks' = [tasks EXCEPT ![current + 1].pc = "spawn_locked"]
    /\ last' = NoSched("spawn_lock")
    /\ served' = Serve(tasks, tasks', {})
    /\ UNCHANGED <<current, ticks, cpu, iflag, vfs_lock, cr3>>
    /\ UNCHANGED otherVars

spawn_unlock ==
    /\ Executing /\ Cur.pc = "spawn_locked"
    /\ tasks' = Append([tasks EXCEPT ![current + 1].pc = "run"], new_task(next_id - 1))
    /\ sched_lock' = FALSE
    /\ last' = NoSched("spawn")
    /\ served' = Serve(tasks, tasks', {})
    /\ UNCHANGED <<current, ticks, next_id, cpu, iflag, vfs_lock, cr3>>
    /\ UNCHANGED otherVars

\* ----------------------------------------------------------- yield_now
yield_now ==
    /\ Executing /\ Cur.pc = "run"
    /\ RunSchedule("yield_now", tasks)
    /\ UNCHANGED <<ticks, next_id, iflag, sched_lock, vfs_lock>>
    /\ UNCHANGED otherVars

\* --------------------------------------------------------------- sleep
sleep_read ==
    /\ Executing /\ Cur.pc = "run"
    /\ \E n \in 0 .. MaxSleep :
         tasks' = [tasks EXCEPT ![current + 1].pc = "sleep_read",
                                ![current + 1].sleep_until = ticks + n]
    /\ last' = NoSched("sleep_read")
    /\ served' = Serve(tasks, tasks', {})
    /\ UNCHANGED <<current, ticks, next_id, cpu, iflag, sched_lock, vfs_lock, cr3>>
    /\ UNCHANGED otherVars

sleep_mark ==
    /\ Executing /\ Cur.pc = "sleep_read"
    /\ tasks' = [tasks EXCEPT ![current + 1].pc = "sleep_marked",
                              ![current + 1].wake_at = Cur.sleep_until,
                              ![current + 1].sleep_until = 0,
                              ![current + 1].state = "Sleeping"]
    /\ last' = NoSched("sleep_mark")
    /\ served' = Serve(tasks, tasks', {})
    /\ UNCHANGED <<current, ticks, next_id, cpu, iflag, sched_lock, vfs_lock, cr3>>
    /\ UNCHANGED otherVars

sleep_schedule ==
    /\ Executing /\ Cur.pc = "sleep_marked"
    /\ RunSchedule("sleep", [tasks EXCEPT ![current + 1].pc = "run"])
    /\ UNCHANGED <<ticks, next_id, iflag, sched_lock, vfs_lock>>
    /\ UNCHANGED otherVars

\* ---------------------------------------------------------------- exit
exit_mark ==
    /\ Executing /\ Cur.pc = "run"
    /\ tasks' = [tasks EXCEPT ![current + 1].pc = "exit_marked",
                              ![current + 1].state = "Dead"]
    /\ last' = NoSched("exit_mark")
    /\ served' = Serve(tasks, tasks', {})
    /\ UNCHANGED <<current, ticks, next_id, cpu, iflag, sched_lock, vfs_lock, cr3>>
    /\ UNCHANGED otherVars

exit_schedule ==
    /\ Executing /\ Cur.pc = "exit_marked"
    /\ RunSchedule("exit", [tasks EXCEPT ![current + 1].pc = "exit_halt"])
    /\ UNCHANGED <<ticks, next_id, iflag, sched_lock, vfs_lock>>
    /\ UNCHANGED otherVars

\* ------------------------------------------------- interrupt handlers
timer_handler ==
    /\ Executing
    /\ ticks < MaxTick
    /\ ticks' = ticks + 1
    /\ last' = NoSched("timer")
    /\ served' = served
    /\ UNCHANGED <<tasks, current, next_id, cpu, iflag, sched_lock, vfs_lock, cr3>>
    /\ UNCHANGED otherVars

keyboard_handler ==
    /\ Executing
    /\ IF sched_lock
       THEN /\ cpu' = "irq_spin"
            /\ iflag' = FALSE
            /\ last' = NoSched("keyboard")
            /\ served' = served
            /\ UNCHANGED <<tasks, current, cr3>>
       ELSE /\ RunSchedule("keyboard", tasks)
            /\ UNCHANGED iflag
    /\ UNCHANGED <<ticks, next_id, sched_lock, vfs_lock>>
    /\ UNCHANGED otherVars

\* ------------------------------------- VFS calls made by system calls
vfs_lock_acquire ==
    /\ Executing /\ Cur.pc = "run"
    /\ vfs_lock = NoTask
    /\ vfs_lock' = Cur.id
    /\ tasks' = [tasks EXCEPT ![current + 1].pc = "vfs_locked"]
    /\ last' = NoSched("vfs_lock")
    /\ served' = Serve(tasks, tasks', {})
    /\ UNCHANGED <<current, ticks, next_id, cpu, iflag, sched_lock, cr3>>
    /\ UNCHANGED otherVars

vfs_lock_release ==
    /\ Executing /\ Cur.pc = "vfs_locked"
    /\ vfs_lock' = NoTask
    /\ tasks' = [tasks EXCEPT ![current + 1].pc = "run"]
    /\ last' = NoSched("vfs_unlock")
    /\ served' = Serve(tasks, tasks', {})
    /\ UNCHANGED <<current, ticks, next_id, cpu, iflag, sched_lock, cr3>>
    /\ UNCHANGED otherVars

tasksfs_lock ==
    /\ Executing /\ Cur.pc = "vfs_locked"
    /\ sched_lock' = TRUE
    /\ tasks' = [tasks EXCEPT ![current + 1].pc = "tasksfs_locked"]
    /\ last' = NoSched("tasksfs_lock")
    /\ served' = Serve(tasks, tasks', {})
    /\ UNCHANGED <<current, ticks, next_id, cpu, iflag, vfs_lock, cr3>>
    /\ UNCHANGED otherVars

tasksfs_unlock ==
    /\ Executing /\ Cur.pc = "tasksfs_locked"
    /\ sched_lock' = FALSE
    /\ tasks' = [tasks EXCEPT ![current + 1].pc = "vfs_locked"]
    /\ last' = NoSched("tasksfs_unlock")
    /\ served' = Serve(tasks, tasks', {})
    /\ UNCHANGED <<current, ticks, next_id, cpu, iflag, vfs_lock, cr3>>
    /\ UNCHANGED otherVars

Next ==
    \/ spawn_lock
    \/ spawn_unlock
    \/ yield_now
    \/ sleep_read
    \/ sleep_mark
    \/ sleep_schedule
    \/ exit_mark
    \/ exit_schedule
    \/ timer_handler
    \/ keyboard_handler
    \/ vfs_lock_acquire
    \/ vfs_lock_release
    \/ tasksfs_lock
    \/ tasksfs_unlock

Spec == Init /\ [][Next]_vars

\* Timer interrupts keep arriving, and the CPU keeps executing the function
\* the current task is in the middle of.
FairSpec ==
    /\ Spec
    /\ WF_vars(timer_handler)
    /\ WF_vars(sleep_mark)
    /\ WF_vars(sleep_schedule)
    /\ WF_vars(exit_schedule)
    /\ WF_vars(spawn_unlock)
    /\ WF_vars(vfs_lock_release)
    /\ WF_vars(tasksfs_unlock)

\* ------------------------------------------------------------ properties
IndexOf(ts, id) == (CHOOSE k \in 1 .. Len(ts) : ts[k].id = id)

TaskOf(ts, id) == ts[IndexOf(ts, id)]

\* C1: in every reachable scheduler state at most one task of the queue has
\* state Running.
C1_AtMostOneRunning == RunningCount(tasks) <= 1

C1_Witness ==
    /\ last.switch /\ cpu = "ok"
    /\ Len(tasks) = 3
    /\ RunningCount(tasks) = 1
    /\ \E k \in 1 .. Len(tasks) : tasks[k].state = "Sleeping"
    /\ \E k \in 1 .. Len(tasks) : tasks[k].state = "Ready"

\* C2: whenever schedule() (called by the interrupt handler, yield_now, sleep
\* or exit) has finished its queue update, exactly one task is Running and it
\* is the task at index current.
C2_ExactlyOneRunningAtStablePoint ==
    last.sched => (RunningCount(tasks) = 1 /\ Cur.state = "Running")

\* C3: a task's state changes only along Ready->Running, Running->Ready,
\* Running->Sleeping, Sleeping->Ready and Running->Dead; inside schedule() the
\* wake loop runs before the pick, so a schedule step is checked in two halves.
AllowedEdges ==
    {<<"Ready", "Running">>, <<"Running", "Ready">>, <<"Running", "Sleeping">>,
     <<"Sleeping", "Ready">>, <<"Running", "Dead">>}

Edge(a, b) == a = b \/ <<a, b>> \in AllowedEdges

AfterWake == wake_sleepers(reap_dead(tasks, current).tasks, ticks)

C3_OnlyAllowedTransitions ==
    [][\A id \in Ids(tasks) \cap Ids(tasks') :
         LET a == TaskOf(tasks, id).state
             m == IF last'.sched THEN TaskOf(AfterWake, id).state ELSE a
             b == TaskOf(tasks', id).state
         IN Edge(a, m) /\ Edge(m, b)]_vars

\* C4: a task that called sleep(N) at tick T is not executing past sleep() and
\* is not Running while the tick counter is below T + N (its pending wake_at).
C4_NoRunBeforeWakeTick ==
    \A k \in 1 .. Len(tasks) :
        (tasks[k].wake_at # NoWake /\ ticks < tasks[k].wake_at) =>
            /\ tasks[k].state # "Running"
            /\ ~(k = current + 1 /\ cpu = "ok" /\ tasks[k].pc = "run")

\* C5: if timer ticks keep arriving, a task that is Sleeping with a wake tick
\* the counter reaches is eventually selected as Running.
C5_SleeperEventuallyRuns ==
    \A id \in 0 .. (MaxId - 1) :
        (\E k \in 1 .. Len(tasks) :
            tasks[k].id = id /\ tasks[k].state = "Sleeping" /\ tasks[k].wake_at <= MaxTick)
        ~> (\E k \in 1 .. Len(tasks) : tasks[k].id = id /\ tasks[k].state = "Running")

\* C6: every timer interrupt adds exactly one to the tick counter and then
\* calls schedule(); no other interrupt handler calls schedule().
C6_OnlyTimerPreempts ==
    [][/\ last'.op = "timer" => (ticks' = ticks + 1 /\ last'.sched)
       /\ last'.op = "keyboard" => ~last'.sched]_vars

\* C7: the reap step leaves no Dead task but the current one, keeps the
\* survivors in order, and current still indexes the task it indexed before.
C7_ReapKeepsCurrent ==
    LET r == reap_dead(tasks, current)
        keep(t) == t.state # "Dead" \/ t.id = Cur.id
    IN /\ r.current \in Indices(r.tasks)
       /\ r.tasks = SelectSeq(tasks, keep)
       /\ \A k \in 1 .. Len(r.tasks) : r.tasks[k].state = "Dead" => k = r.current + 1
       /\ At(r.tasks, r.current).id = Cur.id

C7_Witness ==
    /\ \E k \in 1 .. Len(tasks) : k < current + 1 /\ tasks[k].state = "Dead"
    /\ reap_dead(tasks, current).current < current

\* C8: a task that is switched out holds no spinlock: the holder of the VFS
\* lock is always the task that is executing.
C8_NoLockHeldAcrossSwitch ==
    /\ vfs_lock \in {NoTask, Cur.id}
    /\ last.switch => ~sched_lock

\* C9: the scheduler lock, which schedule() takes inside an interrupt handler,
\* is only held while interrupts are disabled, and no handler spins on it.
C9_HandlerLockHeldWithInterruptsOff ==
    /\ sched_lock => ~iflag
    /\ cpu # "irq_spin"

\* C10: after a context switch CR3 is the PML4 of the task now Running, and is
\* unchanged when that task owns no address space.
C10_Cr3FollowsRunningTask ==
    [][last'.switch =>
         IF At(tasks', current').address_space # 0
         THEN cr3' = At(tasks', current').address_space
         ELSE cr3' = cr3]_vars

\* ============================================== physical memory manager
\* Memory maps as the boot loader hands them over: the entries are sorted,
\* USABLE entries are page aligned and overlap no other entry.  U is the set
\* of usable pages; consecutive pages of one kind form one entry.
run_end(U, p, n) ==
    LET stops == {q \in (p + 1) .. n : q = n \/ ((q \in U) # (p \in U))}
    IN CHOOSE q \in stops : \A r \in stops : q <= r

RECURSIVE entries_from(_, _, _)
entries_from(U, p, n) ==
    IF p >= n THEN <<>>
    ELSE <<[base |-> p * PAGE_SIZE,
            length |-> (run_end(U, p, n) - p) * PAGE_SIZE,
            usable |-> p \in U]>>
         \o entries_from(U, run_end(U, p, n), n)

\* a last reserved entry may end inside a page
Memmaps ==
    {entries_from(U, 0, MaxPage) \o tail :
        U \in (SUBSET (0 .. (MaxPage - 1))) \ {{}},
        tail \in {<<>>, <<[base |-> MaxPage * PAGE_SIZE, length |-> 100,
                          usable |-> FALSE]>>}}

\* addresses passed to free(): every page of the map and two beyond it,
\* page aligned or inside the page
FreeArgs == {p * PAGE_SIZE + off : p \in 0 .. (MaxPage + 2), off \in {0, 8}}

PmmInit ==
    /\ BootSched
    /\ BootVmm
    /\ BootFd
    /\ BootVfs
    /\ BootFat
    /\ BootKb
    /\ BootTmp
    /\ BootDisk
    /\ BootFh
    /\ BootCopies
    /\ BootIrq
    /\ BootStacks
    /\ \E memmap \in Memmaps : PmmStarts(memmap)

\* pmm::alloc()
pmm_alloc ==
    LET r == alloc_page(bitmap, total_pages, free_pages) IN
    /\ bitmap' = r.bitmap
    /\ free_pages' = r.free_pages
    /\ handed' = IF r.ret = NoFrame THEN handed ELSE handed \cup {r.ret}
    /\ pmm_last' = PmmCall("alloc", 0, r.ret, FALSE, r.ret # NoFrame)
    /\ UNCHANGED <<total_pages, schedVars, vmmVars, fdVars, vfsVars, fatVars, kbVars, tmpVars, diskVars, fhVars, copyVars, irqVars, stackVars>>

\* pmm::free(addr)
pmm_free ==
    \E addr \in FreeArgs :
        LET r == free_page(bitmap, total_pages, free_pages, addr)
            frame == (addr \div PAGE_SIZE) * PAGE_SIZE
        IN
        /\ bitmap' = r.bitmap
        /\ free_pages' = r.free_pages
        /\ handed' = handed \ {frame}
        /\ pmm_last' = PmmCall("free", addr, 0, frame \in handed, r.bitmap # bitmap)
        /\ UNCHANGED <<total_pages, schedVars, vmmVars, fdVars, vfsVars, fatVars, kbVars, tmpVars, diskVars, fhVars, copyVars, irqVars, stackVars>>

PmmNext ==
    \/ pmm_alloc
    \/ pmm_free

PmmSpec == PmmInit /\ [][PmmNext]_vars

\* ------------------------------------------------------ claims C13, C14
clear_bits == {p \in 0 .. (total_pages - 1) : ~bitmap[p]}

\* C13: alloc() returns the address of a frame whose bit was clear before the
\* call and sets that bit; it returns None exactly when no bit of
\* [0, total_pages) is clear; it never returns a frame that an earlier alloc
\* returned and no free released; and the alloc that follows the free of a
\* returned frame succeeds.
C13_AllocReturnsClearFrame ==
    [][pmm_last'.op = "alloc" =>
          LET ret == pmm_last'.ret
              page == ret \div PAGE_SIZE
          IN
          /\ (ret = NoFrame) <=> (clear_bits = {})
          /\ ret # NoFrame =>
                /\ page \in 0 .. (total_pages - 1)
                /\ ret = page * PAGE_SIZE
                /\ ~bitmap[page]
                /\ bitmap'[page]
                /\ ret \notin handed
          /\ (pmm_last.op = "free" /\ pmm_last.held) => ret # NoFrame
      ]_vars

\* alloc handed out the last clear frame while another returned frame is
\* still held
C13_Witness ==
    /\ pmm_last.op = "alloc"
    /\ pmm_last.ret # NoFrame
    /\ free_pages = 0
    /\ Cardinality(handed) >= 2

\* C14: free(addr) of a frame that is free already, or that lies beyond
\* total_pages, changes neither the bitmap nor the count of free pages;
\* free of a frame in use clears that frame's bit, no other, and adds one to
\* the count; free_pages() is the number of clear bits in every state.
C14_FreeIsExactAndCountMatches ==
    /\ [](free_pages = Cardinality(clear_bits))
    /\ [][pmm_last'.op = "free" =>
             LET page == pmm_last'.arg \div PAGE_SIZE IN
             IF page < total_pages /\ bitmap[page]
             THEN /\ bitmap' = [bitmap EXCEPT ![page] = FALSE]
                  /\ free_pages' = free_pages + 1
             ELSE /\ bitmap' = bitmap
                  /\ free_pages' = free_pages
         ]_vars

\* a double free: the frame is inside the map and its bit was clear already
C14_Witness ==
    /\ pmm_last.op = "free"
    /\ ~pmm_last.acted
    /\ pmm_last.arg \div PAGE_SIZE < total_pages
    /\ handed # {}
    /\ free_pages > 0

\* ===================================== program loading (sched, elf, vmm)
\* A virtual page is its path of page-table indices <<P4, P3, P2, P1>>.
\* user_stack_base = 0x7FFF_FFFF_0000
user_stack_base == <<255, 511, 511, 496>>

\* `for i in 0..4` of spawn_elf
StackPages == 4

\* user_stack_base - i * 4096
stack_page(i) == [user_stack_base EXCEPT ![4] = @ - i]

\* the programs kmain spawns, each with one PT_LOAD segment: init of
\* MaxSegPages pages linked at 0x400000, hello of one page linked at the same
\* address or behind init
Elfs ==
    {[name |-> "init", vaddr |-> <<0, 0, 2, 0>>, pages |-> MaxSegPages],
     [name |-> "hello", vaddr |-> <<0, 0, 2, 0>>, pages |-> 1],
     [name |-> "hello", vaddr |-> <<0, 0, 2, MaxSegPages>>, pages |-> 1]}

\* start_page .. end_page of a segment, page by page
segment_pages(elf) == [i \in 1 .. elf.pages |-> [elf.vaddr EXCEPT ![4] = @ + i - 1]]

\* the tables map_to walks for a page: P3, P2 and P1
table_keys(vp) == <<SubSeq(vp, 1, 1), SubSeq(vp, 1, 2), SubSeq(vp, 1, 3)>>

\* what one spawn_elf call works on
Memory ==
    [bitmap |-> bitmap, free_pages |-> free_pages, map |-> page_map,
     tables |-> page_tables, phys |-> phys, got |-> {}, err |-> NoErr]

Take(m, a) ==
    [m EXCEPT !.bitmap = a.bitmap, !.free_pages = a.free_pages,
              !.got = @ \cup {a.ret}]

\* map_to creates the missing tables with frames of PmmFrameAllocator
RECURSIVE create_tables(_, _, _)
create_tables(m, keys, k) ==
    IF k > Len(keys) THEN m
    ELSE IF keys[k] \in DOMAIN m.tables THEN create_tables(m, keys, k + 1)
    ELSE LET a == alloc_page(m.bitmap, total_pages, m.free_pages) IN
         IF a.ret = NoFrame
         THEN [m EXCEPT !.err = "failed to map page"]
         ELSE create_tables([Take(m, a) EXCEPT !.tables = (keys[k] :> a.ret) @@ @],
                            keys, k + 1)

\* vmm::map_page: map_to fails on a page that is mapped already
map_page(m, vp, frame) ==
    LET t == create_tables(m, table_keys(vp), 1) IN
    IF t.err # NoErr THEN t
    ELSE IF vp \in DOMAIN t.map THEN [t EXCEPT !.err = "failed to map page"]
    ELSE [t EXCEPT !.map = (vp :> frame) @@ @]

\* vmm::map_page_alloc: the frame is taken and zeroed before map_page runs
map_page_alloc(m, vp) ==
    LET a == alloc_page(m.bitmap, total_pages, m.free_pages) IN
    IF a.ret = NoFrame
    THEN [m EXCEPT !.err = "out of memory"]
    ELSE map_page([Take(m, a) EXCEPT !.phys = (a.ret :> "zero") @@ @], vp, a.ret)

\* the while loop of elf::load over the pages of a segment
RECURSIVE load_pages(_, _, _)
load_pages(m, pages, k) ==
    IF k > Len(pages) \/ m.err # NoErr THEN m
    ELSE load_pages(IF pages[k] \in DOMAIN m.map THEN m
                    ELSE map_page_alloc(m, pages[k]),
                    pages, k + 1)

\* copy_nonoverlapping / write_bytes through the virtual address
copy_segment(m, pages, name) ==
    [m EXCEPT !.phys = [f \in {m.map[pages[k]] : k \in 1 .. Len(pages)} |-> name] @@ @]

\* elf::load
load(m, elf) ==
    LET l == load_pages(m, segment_pages(elf), 1) IN
    IF l.err # NoErr THEN l ELSE copy_segment(l, segment_pages(elf), elf.name)

RECURSIVE map_stack(_, _)
map_stack(m, i) ==
    IF i >= StackPages \/ m.err # NoErr THEN m
    ELSE map_stack(map_page_alloc(m, stack_page(i)), i + 1)

frames_of(m, pages) == {m.map[vp] : vp \in pages \cap DOMAIN m.map}

\* sched::spawn_elf
spawn_elf ==
    /\ Executing /\ Cur.pc = "run"
    /\ ~sched_lock
    /\ next_id < MaxId
    /\ elf_last.calls < MaxSpawns
    /\ \E elf \in Elfs :
         LET l == load(Memory, elf)
             m == IF l.err # NoErr THEN l ELSE map_stack(l, 0)
         IN
         /\ bitmap' = m.bitmap
         /\ free_pages' = m.free_pages
         /\ handed' = handed \cup m.got
         /\ page_map' = m.map
         /\ page_tables' = m.tables
         /\ phys' = m.phys
         /\ elf_last' = ElfCall("spawn_elf", elf.name, m.err, free_pages,
                                 elf_last.calls + 1)
         /\ IF m.err = NoErr
            THEN /\ next_id' = next_id + 1
                 /\ tasks' = Append(tasks, new_task(next_id))
                 /\ owned' = (next_id :>
                                [image |-> elf.name,
                                 seg |-> frames_of(m, {segment_pages(elf)[k] : k \in 1 .. elf.pages}),
                                 stack |-> frames_of(m, {stack_page(i) : i \in 0 .. (StackPages - 1)}),
                                 frames |-> m.got]) @@ owned
            ELSE UNCHANGED <<next_id, tasks, owned>>
    /\ last' = NoSched("spawn_elf")
    /\ served' = Serve(tasks, tasks', {})
    /\ UNCHANGED <<current, ticks, cpu, iflag, sched_lock, vfs_lock, cr3>>
    /\ UNCHANGED <<total_pages, pmm_last, fdVars, vfsVars, fatVars, kbVars, tmpVars, diskVars, fhVars, copyVars, irqVars, stackVars>>

ElfNext ==
    \/ spawn_elf
    \/ yield_now
    \/ exit_mark
    \/ exit_schedule

ElfSpec == Init /\ [][ElfNext]_vars

\* ------------------------------------------------------ claims C11, C12
\* the frames one spawn can take: segment, stack, the tables of both, a PML4
SpawnFrames == MaxSegPages + StackPages + 2 * 3 + 1

\* C11: spawn_elf succeeds while memory is available, also for a further
\* task; the frames that back a task's segment hold what that task's load
\* wrote, not what the load of another program wrote; no frame backs the
\* segments or stacks of two tasks.
C11_PrivateAddressSpaces ==
    /\ (elf_last.op = "spawn_elf" /\ elf_last.free_before >= SpawnFrames)
          => elf_last.err = NoErr
    /\ \A a \in DOMAIN owned : \A f \in owned[a].seg : phys[f] = owned[a].image
    /\ \A a, b \in DOMAIN owned :
          a # b => (owned[a].seg \cup owned[a].stack)
                      \cap (owned[b].seg \cup owned[b].stack) = {}

\* C12: the schedule() that reaps a user task returns every frame the task's
\* spawn allocated (pages, tables) to the PMM: their bits are clear and
\* free_pages grew by their number.
C12_ReapReturnsFrames ==
    [][\A id \in DOMAIN owned :
          (id \in Ids(tasks) /\ id \notin Ids(tasks')) =>
              /\ \A f \in owned[id].frames : ~bitmap'[f \div PAGE_SIZE]
              /\ free_pages' = free_pages + Cardinality(owned[id].frames)
      ]_vars

\* ================================================ descriptor table API
\* the for loop of alloc from slot i on: the first slot that is None
RECURSIVE first_none(_, _)
first_none(t, i) ==
    IF i >= MAX_FDS THEN NoIndex
    ELSE IF t[i] = None THEN i
    ELSE first_none(t, i + 1)

RECURSIVE last_none(_, _)
last_none(t, i) ==
    IF i < 0 THEN NoIndex
    ELSE IF t[i] = None THEN i
    ELSE last_none(t, i - 1)

alloc_highest(t, kind) ==
    LET i == last_none(t, MAX_FDS - 1) IN
    IF i = NoIndex
    THEN [fds |-> t, ok |-> FALSE, ret |-> 0, err |-> "NoSpace"]
    ELSE [fds |-> [t EXCEPT ![i] = kind], ok |-> TRUE, ret |-> i, err |-> ""]

\* FdTable::alloc
alloc(t, kind) ==
    LET i == first_none(t, 0) IN
    IF i = NoIndex
    THEN [fds |-> t, ok |-> FALSE, ret |-> 0, err |-> "NoSpace"]
    ELSE [fds |-> [t EXCEPT ![i] = kind], ok |-> TRUE, ret |-> i, err |-> ""]

\* FdTable::get_mut
get_mut(t, fd) ==
    IF fd >= MAX_FDS THEN [ok |-> FALSE, err |-> "InvalidFd", kind |-> None]
    ELSE IF t[fd] = None THEN [ok |-> FALSE, err |-> "InvalidFd", kind |-> None]
    ELSE [ok |-> TRUE, err |-> "", kind |-> t[fd]]

close_any(t, fd) ==
    IF fd >= MAX_FDS THEN [fds |-> t, ok |-> FALSE, err |-> "InvalidFd"]
    ELSE IF t[fd] = None THEN [fds |-> t, ok |-> FALSE, err |-> "InvalidFd"]
    ELSE [fds |-> [t EXCEPT ![fd] = None], ok |-> TRUE, err |-> ""]

\* FdTable::close
close(t, fd) ==
    IF fd >= MAX_FDS THEN [fds |-> t, ok |-> FALSE, err |-> "InvalidFd"]
    ELSE IF fd < 3 THEN [fds |-> t, ok |-> FALSE, err |-> "PermissionDenied"]
    ELSE IF t[fd] = None THEN [fds |-> t, ok |-> FALSE, err |-> "InvalidFd"]
    ELSE [fds |-> [t EXCEPT ![fd] = None], ok |-> TRUE, err |-> ""]

\* descriptors passed to close: the reserved ones, the lowest and the highest
\* slots of the table, and two beyond it
CloseArgs == {0, 1, 2, 3, 4, 5, MAX_FDS - 2, MAX_FDS - 1, MAX_FDS, MAX_FDS + 1}

fd_alloc ==
    LET r == alloc(fds, Fd("File", <<>>, 0)) IN
    /\ fds' = r.fds
    /\ fd_last' = FdCall("alloc", 0, r.ok, r.ret, r.err)
    /\ UNCHANGED <<root_dir, schedVars, pmmVars, vmmVars, vfsVars, fatVars, kbVars, tmpVars, diskVars, fhVars, copyVars, irqVars, stackVars>>

fd_close ==
    \E fd \in CloseArgs :
        LET r == close(fds, fd) IN
        /\ fds' = r.fds
        /\ fd_last' = FdCall("close", fd, r.ok, 0, r.err)
        /\ UNCHANGED <<root_dir, schedVars, pmmVars, vmmVars, vfsVars, fatVars, kbVars, tmpVars, diskVars, fhVars, copyVars, irqVars, stackVars>>

FdNext ==
    \/ fd_alloc
    \/ fd_close

FdSpec == Init /\ [][FdNext]_vars

\* ------------------------------------------------------ claims C15, C16
OpenSlots(t) == {i \in 0 .. (MAX_FDS - 1) : t[i] # None}

\* C15: in every state slots 0, 1 and 2 hold Stdin, Stdout and Stderr;
\* close(fd) with fd < 3 fails with PermissionDenied and leaves the table as
\* it was; alloc returns no slot below 3 and leaves slots 0..2 as they were.
C15_StdSlotsPermanent ==
    /\ [](/\ fds[0].kind = "Stdin"
          /\ fds[1].kind = "Stdout"
          /\ fds[2].kind = "Stderr"
          /\ (fd_last.op = "close" /\ fd_last.fd < 3)
                => (~fd_last.ok /\ fd_last.err = "PermissionDenied")
          /\ (fd_last.op = "alloc" /\ fd_last.ok) => fd_last.ret >= 3)
    /\ [][/\ (fd_last'.op = "close" /\ fd_last'.fd < 3) => fds' = fds
          /\ \A i \in 0 .. 2 : fds'[i] = fds[i]
         ]_vars

\* close(1) was refused while another descriptor is open
C15_Witness ==
    /\ fd_last.op = "close"
    /\ fd_last.fd = 1
    /\ fd_last.err = "PermissionDenied"
    /\ OpenSlots(fds) # 0 .. 2

\* C16: alloc returns the lowest slot that is free and stores the descriptor
\* there, changing no other slot; it fails with NoSpace, changing nothing,
\* exactly when all 64 slots are open, so 61 allocations (slots 3..63)
\* succeed on a fresh table and the 62nd fails; a close(f) that succeeds
\* leaves slot f free.
C16_AllocLowestFree ==
    /\ []((fd_last.op = "alloc" /\ ~fd_last.ok) =>
              (fd_last.err = "NoSpace" /\ Cardinality(OpenSlots(fds)) = 3 + 61))
    /\ [][/\ fd_last'.op = "alloc" =>
                LET free == (0 .. (MAX_FDS - 1)) \ OpenSlots(fds) IN
                IF free = {}
                THEN ~fd_last'.ok /\ fd_last'.err = "NoSpace" /\ fds' = fds
                ELSE /\ fd_last'.ok
                     /\ fd_last'.ret \in free
                     /\ \A i \in free : fd_last'.ret <= i
                     /\ OpenSlots(fds') = OpenSlots(fds) \cup {fd_last'.ret}
                     /\ \A i \in OpenSlots(fds) : fds'[i] = fds[i]
          /\ (fd_last'.op = "close" /\ fd_last'.ok) =>
                /\ fds'[fd_last'.fd] = None
                /\ OpenSlots(fds') = OpenSlots(fds) \ {fd_last'.fd}
         ]_vars

\* the allocation that finds all 64 slots open
C16_Witness ==
    /\ fd_last.op = "alloc"
    /\ fd_last.err = "NoSpace"
    /\ OpenSlots(fds) = 0 .. 63

\* ===================================== system calls on file descriptors
\* u64::MAX, the two's complement of 1
U64_MAX == -1

\* sched::with_fd_table runs the closure on the fd table of the current task
with_fd_table == fds

\* descriptors passed to the calls
SysFds == {0, 1, 2, 3, 4, MAX_FDS}

\* names made and removed in the directory, each by its length in bytes;
\* the entry of length 1 is there from the start and stays
Names == {3}

BufLens == {0, 4, 10}

Ok(n) == [ok |-> TRUE, n |-> n, err |-> ""]

Err(e) == [ok |-> FALSE, n |-> 0, err |-> e]

\* what FileHandle::read / write may return for a request of len bytes
HandleResults(len) == {Ok(n) : n \in 0 .. len} \cup {Err("IoError"), Err("PermissionDenied")}

\* keyboard bytes a read of stdin returns once input is there
StdinCounts(len) == IF len = 0 THEN {0} ELSE 1 .. len

\* result.unwrap_or(0) as u64
unwrap_or_0(r) == IF r.ok THEN r.n ELSE 0

\* result.map(|fd| fd as u64).unwrap_or(u64::MAX)
unwrap_or_max(r) == IF r.ok THEN r.n ELSE U64_MAX

SysCall(op, fd, r, ret) == FdCall(op, fd, r.ok, ret, r.err)

RECURSIVE getdents_fill_all(_, _, _, _)
getdents_fill_all(entries, position, offset, buf_len) ==
    IF position >= Len(entries) THEN [position |-> position, offset |-> offset]
    ELSE getdents_fill_all(entries, position + 1,
                           offset + 1 + 2 + entries[position + 1], buf_len)

\* the while loop of SYS_GETDENTS
RECURSIVE getdents_fill(_, _, _, _)
getdents_fill(entries, position, offset, buf_len) ==
    IF position >= Len(entries) THEN [position |-> position, offset |-> offset]
    ELSE LET entry_size == 1 + 2 + entries[position + 1] IN
         IF offset + entry_size > buf_len
         THEN [position |-> position, offset |-> offset]
         ELSE getdents_fill(entries, position + 1, offset + entry_size, buf_len)

sys_write ==
    \E fd \in SysFds, len \in 0 .. MaxLen :
      \E h \in HandleResults(len) :
        LET g == get_mut(with_fd_table, fd)
            result == IF ~g.ok THEN Err(g.err)
                      ELSE IF g.kind.kind = "File" THEN h
                      ELSE IF g.kind.kind \in {"Stdout", "Stderr"} THEN Ok(len)
                      ELSE Err("PermissionDenied")
        IN
        /\ fd_last' = IF fd = 1 \/ fd = 2
                      THEN SysCall("write", fd, Ok(len), len)
                      ELSE SysCall("write", fd, result, unwrap_or_0(result))
        /\ UNCHANGED <<fds, root_dir, schedVars, pmmVars, vmmVars, vfsVars, fatVars, kbVars, tmpVars, diskVars, fhVars, copyVars, irqVars, stackVars>>

sys_read ==
    \E fd \in SysFds, len \in 0 .. MaxLen :
      \E h \in HandleResults(len), count \in StdinCounts(len) :
        LET g == get_mut(with_fd_table, fd)
            result == IF ~g.ok THEN Err(g.err)
                      ELSE IF g.kind.kind = "File" THEN h
                      ELSE IF g.kind.kind = "Stdin" THEN Ok(count)
                      ELSE Err("PermissionDenied")
        IN
        /\ fd_last' = IF fd = 0
                      THEN SysCall("read", fd, Ok(count), count)
                      ELSE SysCall("read", fd, result, unwrap_or_0(result))
        /\ UNCHANGED <<fds, root_dir, schedVars, pmmVars, vmmVars, vfsVars, fatVars, kbVars, tmpVars, diskVars, fhVars, copyVars, irqVars, stackVars>>

sys_open ==
    /\ Cardinality({i \in 0 .. (MAX_FDS - 1) : fds[i] # None}) < 3 + MaxOpen
    /\ \E directory \in BOOLEAN, found \in BOOLEAN :
        LET r == alloc(with_fd_table,
                       IF directory THEN Fd("Directory", root_dir, 0)
                       ELSE Fd("File", <<>>, 0))
            result == IF r.ok THEN Ok(r.ret) ELSE Err(r.err)
        IN
        IF found
        THEN /\ fds' = r.fds
             /\ fd_last' = SysCall("open", 0, result, unwrap_or_max(result))
        ELSE /\ fds' = fds
             /\ fd_last' = SysCall("open", 0, Err("NotFound"), U64_MAX)
    /\ UNCHANGED <<root_dir, schedVars, pmmVars, vmmVars, vfsVars, fatVars, kbVars, tmpVars, diskVars, fhVars, copyVars, irqVars, stackVars>>

sys_close ==
    \E fd \in SysFds :
        LET r == close(with_fd_table, fd) IN
        /\ fds' = r.fds
        /\ fd_last' = FdCall("close", fd, r.ok, IF r.ok THEN 0 ELSE U64_MAX, r.err)
        /\ UNCHANGED <<root_dir, schedVars, pmmVars, vmmVars, vfsVars, fatVars, kbVars, tmpVars, diskVars, fhVars, copyVars, irqVars, stackVars>>

sys_getdents ==
    \E fd \in SysFds, buf_len \in BufLens :
        LET g == get_mut(with_fd_table, fd)
            isdir == g.ok /\ g.kind.kind = "Directory"
            f == getdents_fill(g.kind.entries, g.kind.position, 0, buf_len)
            result == IF ~g.ok THEN Err(g.err)
                      ELSE IF isdir THEN Ok(f.offset)
                      ELSE Err("NotADirectory")
        IN
        /\ fds' = IF isdir THEN [fds EXCEPT ![fd].position = f.position] ELSE fds
        /\ fd_last' = [buf_len |-> buf_len]
                           @@ SysCall("getdents", fd, result, unwrap_or_0(result))
        /\ UNCHANGED <<root_dir, schedVars, pmmVars, vmmVars, vfsVars, fatVars, kbVars, tmpVars, diskVars, fhVars, copyVars, irqVars, stackVars>>

\* SYS_MKDIR of a name in the directory
sys_mkdir ==
    \E name \in Names :
        LET exists == \E k \in 1 .. Len(root_dir) : root_dir[k] = name
            result == IF exists THEN Err("AlreadyExists") ELSE Ok(0)
        IN
        /\ root_dir' = IF exists THEN root_dir ELSE Append(root_dir, name)
        /\ fd_last' = SysCall("mkdir", 0, result, unwrap_or_max(result))
        /\ UNCHANGED <<fds, schedVars, pmmVars, vmmVars, vfsVars, fatVars, kbVars, tmpVars, diskVars, fhVars, copyVars, irqVars, stackVars>>

\* SYS_UNLINK or SYS_RMDIR of a name in the directory
sys_unlink ==
    \E name \in Names :
        LET exists == \E k \in 1 .. Len(root_dir) : root_dir[k] = name
            result == IF exists THEN Ok(0) ELSE Err("NotFound")
        IN
        /\ root_dir' = SelectSeq(root_dir, LAMBDA e : e # name)
        /\ fd_last' = SysCall("unlink", 0, result, unwrap_or_max(result))
        /\ UNCHANGED <<fds, schedVars, pmmVars, vmmVars, vfsVars, fatVars, kbVars, tmpVars, diskVars, fhVars, copyVars, irqVars, stackVars>>

SysNext ==
    \/ sys_write
    \/ sys_read
    \/ sys_open
    \/ sys_close
    \/ sys_getdents

SysSpec == Init /\ [][SysNext]_vars

\* ------------------------------------------------------------ claim C19
\* C19: a system call that fails returns u64::MAX: write, read and getdents
\* on a descriptor that is not open, is of the wrong kind, or whose handle
\* returns an error, return u64::MAX, as open and close do.
C19_FailureReturnsU64Max ==
    (fd_last.op \in {"write", "read", "getdents", "open", "close"} /\ ~fd_last.ok)
        => fd_last.ret = U64_MAX

\* the calls that make, list and change a directory
DirNext ==
    \/ sys_open
    \/ sys_close
    \/ sys_getdents
    \/ sys_mkdir
    \/ sys_unlink

DirSpec == Init /\ [][DirNext]_vars

\* ------------------------------------------------------------ claim C22
\* bytes the entries p + 1 .. q of a listing take in the user's buffer
RECURSIVE entry_bytes(_, _, _)
entry_bytes(entries, p, q) ==
    IF p >= q THEN 0 ELSE 1 + 2 + entries[p + 1] + entry_bytes(entries, p + 1, q)

\* C22: getdents on a Directory fd walks the listing taken at open: a call
\* returns the next entries in order from the position the last call left,
\* whole entries only, at most buf_len bytes, and as many as fit; no other
\* call (mkdir, unlink, rmdir, open, close of another fd) changes the
\* listing or the position of the fd.
C22_GetdentsWalksSnapshot ==
    [][\A fd \in 0 .. (MAX_FDS - 1) :
        (fds[fd].kind = "Directory" /\ fds'[fd] # None) =>
            LET entries == fds[fd].entries
                p == fds[fd].position
                q == fds'[fd].position
            IN
            /\ fds'[fd].kind = "Directory"
            /\ fds'[fd].entries = entries
            /\ IF fd_last'.op = "getdents" /\ fd_last'.fd = fd
               THEN /\ p <= q /\ q <= Len(entries)
                    /\ fd_last'.ret = entry_bytes(entries, p, q)
                    /\ fd_last'.ret <= fd_last'.buf_len
                    /\ \/ q = Len(entries)
                       \/ fd_last'.ret + 1 + 2 + entries[q + 1] > fd_last'.buf_len
               ELSE q = p]_vars

\* a Directory fd read to the end of a two-entry listing in calls that
\* returned entries, after the directory itself has changed
C22_Witness ==
    /\ fd_last.op = "getdents" /\ fd_last.ret > 0
    /\ fds[fd_last.fd].kind = "Directory"
    /\ Len(fds[fd_last.fd].entries) = 2
    /\ fds[fd_last.fd].position = 2
    /\ fds[fd_last.fd].entries # root_dir
    /\ fd_last.ret < entry_bytes(fds[fd_last.fd].entries, 0, 2)

\* ================================================= paths (vfs/mod.rs)
\* path.split('/'): the pieces between the separators, from character i on,
\* cur being the piece read so far
RECURSIVE split(_, _, _)
split(path, i, cur) ==
    IF i > Len(path) THEN <<cur>>
    ELSE IF path[i] = "/" THEN <<cur>> \o split(path, i + 1, <<>>)
    ELSE split(path, i + 1, Append(cur, path[i]))

\* the for loop of normalize_path over the pieces k .. Len(pieces)
RECURSIVE fold_parts(_, _, _)
fold_parts(pieces, k, parts) ==
    IF k > Len(pieces) THEN parts
    ELSE IF pieces[k] = <<>> \/ pieces[k] = <<".">>
         THEN fold_parts(pieces, k + 1, parts)
    ELSE IF pieces[k] = <<".", ".">>
         THEN fold_parts(pieces, k + 1,
                         IF parts = <<>> THEN parts
                         ELSE SubSeq(parts, 1, Len(parts) - 1))
    ELSE fold_parts(pieces, k + 1, Append(parts, pieces[k]))

RECURSIVE join(_, _)
join(parts, k) ==
    IF k > Len(parts) THEN <<>>
    ELSE <<"/">> \o parts[k] \o join(parts, k + 1)

normalize_path_prefixed(path) == <<"/">> \o path

normalize_path(path) ==
    LET parts == fold_parts(split(path, 1, <<>>), 1, <<>>) IN
    IF parts = <<>> THEN <<"/">> ELSE join(parts, 1)

starts_with(str, prefix) ==
    Len(prefix) <= Len(str) /\ SubSeq(str, 1, Len(prefix)) = prefix

resolve_path(path, cwd) ==
    IF starts_with(path, <<"/">>)
    THEN normalize_path(path)
    ELSE normalize_path((IF cwd # <<>> /\ cwd[Len(cwd)] = "/" THEN cwd
                         ELSE cwd \o <<"/">>) \o path)

\* all strings of up to n characters over the set chars
RECURSIVE Strings(_, _)
Strings(chars, n) ==
    IF n = 0 THEN {<<>>}
    ELSE Strings(chars, n - 1)
         \cup {Append(str, c) : str \in Strings(chars, n - 1), c \in chars}

Paths == Strings({"/", ".", "a", "b"}, MaxPathLen)

\* working directories, as chdir stores them
Cwds == {<<"/">>, <<"/", "a">>}

\* normalize_path as mount, unmount and resolve apply it to their argument.
\* The function reads nothing but its argument, so one call from the start
\* reaches every result.
vfs_normalize ==
    \E path \in Paths :
        /\ vfs_last.op = "new"
        /\ vfs_last' = VfsCall("normalize", path, TRUE, normalize_path(path),
                               <<>>, <<>>, "")
        /\ UNCHANGED <<mounts, schedVars, pmmVars, vmmVars, fdVars, fatVars, kbVars, tmpVars, diskVars, fhVars, copyVars, irqVars, stackVars>>

vfs_resolve_path ==
    \E path \in Paths, cwd \in Cwds :
        /\ vfs_last.op = "new"
        /\ vfs_last' = VfsCall("resolve_path", cwd \o <<":">> \o path, TRUE,
                               resolve_path(path, cwd), <<>>, <<>>, "")
        /\ UNCHANGED <<mounts, schedVars, pmmVars, vmmVars, fdVars, fatVars, kbVars, tmpVars, diskVars, fhVars, copyVars, irqVars, stackVars>>

PathNext ==
    \/ vfs_normalize
    \/ vfs_resolve_path

PathSpec == Init /\ [][PathNext]_vars

\* ------------------------------------------------------------ claim C17
Segment(str, i, j) == (i = 1 \/ str[i - 1] = "/") /\ (j = Len(str) \/ str[j + 1] = "/")

\* C17: the result of normalize_path, for an absolute or a relative path
\* with any mix of empty, `.` and `..` segments, begins with `/`, has no two
\* `/` in a row, and has no segment that is `.` or `..`.
C17_NormalizedPathShape ==
    vfs_last.op \in {"normalize", "resolve_path"} =>
        LET n == vfs_last.norm IN
        /\ Len(n) >= 1
        /\ n[1] = "/"
        /\ \A i \in 1 .. (Len(n) - 1) : ~(n[i] = "/" /\ n[i + 1] = "/")
        /\ \A i \in 1 .. Len(n) : ~(n[i] = "." /\ Segment(n, i, i))
        /\ \A i \in 1 .. (Len(n) - 1) :
              ~(n[i] = "." /\ n[i + 1] = "." /\ Segment(n, i, i + 1))

\* a relative path that climbs above the root and has an empty segment
C17_Witness ==
    /\ vfs_last.op = "normalize"
    /\ vfs_last.arg = <<".", ".", "/", "/", "a">>
    /\ vfs_last.norm = <<"/", "a">>

\* =========================================== mount table (vfs/mod.rs)
\* where m lands in a list sorted by length, longest first, when the sort is
\* stable: behind every path that is at least as long
insert_by_len(sorted, m) ==
    LET idx == Cardinality({j \in 1 .. Len(sorted) : Len(sorted[j]) >= Len(m)})
    IN SubSeq(sorted, 1, idx) \o <<m>> \o SubSeq(sorted, idx + 1, Len(sorted))

RECURSIVE sort_from(_, _, _)
sort_from(ms, k, sorted) ==
    IF k > Len(ms) THEN sorted
    ELSE sort_from(ms, k + 1, insert_by_len(sorted, ms[k]))

sort_skipped(ms) == ms

\* mounts.sort_by(|a, b| b.path.len().cmp(&a.path.len()))
sort_by(ms) == sort_from(ms, 1, <<>>)

\* Vfs::mount
mount(ms, arg) ==
    LET path == normalize_path(arg) IN
    IF \E k \in 1 .. Len(ms) : ms[k] = path
    THEN [mounts |-> ms, ok |-> FALSE, err |-> "AlreadyExists"]
    ELSE [mounts |-> sort_by(Append(ms, path)), ok |-> TRUE, err |-> ""]

\* Vfs::unmount
unmount(ms, arg) ==
    LET path == normalize_path(arg)
        found == {k \in 1 .. Len(ms) : ms[k] = path}
        idx == CHOOSE k \in found : \A j \in found : k <= j
    IN IF found = {}
       THEN [mounts |-> ms, ok |-> FALSE, err |-> "NotFound"]
       ELSE [mounts |-> SubSeq(ms, 1, idx - 1) \o SubSeq(ms, idx + 1, Len(ms)),
             ok |-> TRUE, err |-> ""]

Resolved(m, sub) == [ok |-> TRUE, mount |-> m, sub |-> sub, err |-> ""]

\* the for loop of Vfs::resolve from mount k on; path is normalized
RECURSIVE resolve_from(_, _, _)
resolve_from(ms, path, k) ==
    IF k > Len(ms)
    THEN [ok |-> FALSE, mount |-> <<>>, sub |-> <<>>, err |-> "NotFound"]
    ELSE LET rest == SubSeq(path, Len(ms[k]) + 1, Len(path)) IN
         IF ms[k] = <<"/">> THEN Resolved(ms[k], path)
         ELSE IF path = ms[k] THEN Resolved(ms[k], <<"/">>)
         ELSE IF starts_with(path, ms[k])
              THEN IF rest = <<>> \/ rest = <<"/">> THEN Resolved(ms[k], <<"/">>)
                   ELSE IF rest[1] = "/" THEN Resolved(ms[k], rest)
                   ELSE resolve_from(ms, path, k + 1)
         ELSE resolve_from(ms, path, k + 1)

\* Vfs::resolve
resolve(ms, arg) == resolve_from(ms, normalize_path(arg), 1)

\* paths handed to mount and unmount
MountArgs ==
    {<<"/">>, <<"/", "a">>, <<"/", "a", "/">>, <<"/", "a", "b">>,
     <<"/", "a", "/", "b">>}

\* absolute paths, normalized or not, as resolve_path and the kernel pass them
Requests == {<<"/">> \o str : str \in Strings({"/", "a", "b"}, MaxReqLen - 1)}

vfs_mount ==
    \E arg \in MountArgs :
        LET r == mount(mounts, arg) IN
        /\ mounts' = r.mounts
        /\ vfs_last' = VfsCall("mount", arg, r.ok, normalize_path(arg), <<>>, <<>>, r.err)
        /\ UNCHANGED <<schedVars, pmmVars, vmmVars, fdVars, fatVars, kbVars, tmpVars, diskVars, fhVars, copyVars, irqVars, stackVars>>

vfs_unmount ==
    \E arg \in MountArgs :
        LET r == unmount(mounts, arg) IN
        /\ mounts' = r.mounts
        /\ vfs_last' = VfsCall("unmount", arg, r.ok, normalize_path(arg), <<>>, <<>>, r.err)
        /\ UNCHANGED <<schedVars, pmmVars, vmmVars, fdVars, fatVars, kbVars, tmpVars, diskVars, fhVars, copyVars, irqVars, stackVars>>

\* a lookup (the first step of open, mkdir, remove, rmdir, readdir and
\* metadata) leaves the table as it is, so one lookup after each change of
\* the table reaches every result
vfs_resolve ==
    \E arg \in Requests :
        LET r == resolve(mounts, arg) IN
        /\ vfs_last.op # "resolve"
        /\ vfs_last' = VfsCall("resolve", arg, r.ok, normalize_path(arg), r.mount, r.sub, r.err)
        /\ UNCHANGED <<mounts, schedVars, pmmVars, vmmVars, fdVars, fatVars, kbVars, tmpVars, diskVars, fhVars, copyVars, irqVars, stackVars>>

VfsNext ==
    \/ vfs_mount
    \/ vfs_unmount
    \/ vfs_resolve

VfsSpec == Init /\ [][VfsNext]_vars

\* ------------------------------------------------------------ claim C18
\* mount path m is the request p itself or a parent of it by whole components
Covers(m, p) ==
    \/ m = <<"/">>
    \/ m = p
    \/ Len(m) < Len(p) /\ SubSeq(p, 1, Len(m)) = m /\ p[Len(m) + 1] = "/"

\* C18: after any sequence of mounts and unmounts, a lookup selects, among
\* the mounts that are the normalized request or a whole-component parent of
\* it, the one with the longest path (a mount at /a does not capture /ab),
\* fails with NotFound when there is none, and returns as subpath the rest
\* of the request, rooted at `/`.
C18_LongestMountWins ==
    vfs_last.op = "resolve" =>
        LET p == vfs_last.norm
            covering == {k \in 1 .. Len(mounts) : Covers(mounts[k], p)}
            m == vfs_last.mount
        IN
        IF covering = {}
        THEN ~vfs_last.ok /\ vfs_last.err = "NotFound"
        ELSE /\ vfs_last.ok
             /\ \E k \in covering : mounts[k] = m
             /\ \A k \in covering : Len(mounts[k]) <= Len(m)
             /\ vfs_last.sub[1] = "/"
             /\ vfs_last.sub = IF m = <<"/">> THEN p
                               ELSE IF m = p THEN <<"/">>
                               ELSE SubSeq(p, Len(m) + 1, Len(p))

\* /a/b/a is looked up under the mounts /, /a, /ab and /a/b: /a/b is chosen
C18_Witness ==
    /\ vfs_last.op = "resolve"
    /\ vfs_last.arg = <<"/", "a", "/", "b", "/", "a">>
    /\ Len(mounts) = 4
    /\ vfs_last.mount = <<"/", "a", "/", "b">>
    /\ vfs_last.sub = <<"/", "a">>

\* ============================================ FAT32 volume (vfs/fat32.rs)
\* the directories of the volume by first cluster: the root holds the
\* directory a and the file f, a holds the file f
Volume ==
    (2 :> <<[name |-> <<"a">>, dir |-> TRUE, cluster |-> 3],
           [name |-> <<"f">>, dir |-> FALSE, cluster |-> 4]>>)
    @@ (3 :> <<[name |-> <<"f">>, dir |-> FALSE, cluster |-> 5]>>)

Clusters == {2, 3, 4, 5}

\* Result<T, &'static str> inside the driver
LowOk(val) == [ok |-> TRUE, val |-> val, why |-> ""]

LowErr(why) == [ok |-> FALSE, val |-> <<>>, why |-> why]

\* VfsResult of the driver; io says that the device failed during the call
VOk == [ok |-> TRUE, err |-> "", io |-> FALSE]

VErr(err, low) == [ok |-> FALSE, err |-> err, io |-> (low.why = "device")]

Failed(err) == [ok |-> FALSE, err |-> err, io |-> FALSE]

\* read_chain: the device fails on the clusters in bad
read_chain(bad, cluster) ==
    IF cluster \in bad THEN LowErr("device") ELSE LowOk(cluster)

\* read_directory
read_directory(bad, dir_cluster) ==
    IF ~read_chain(bad, dir_cluster).ok THEN read_chain(bad, dir_cluster)
    ELSE LowOk(Volume[dir_cluster])

\* find_in_directory: Ok(Some(entry)) is a one-element sequence, Ok(None)
\* the empty one
find_in_directory(bad, dir_cluster, name) ==
    LET r == read_directory(bad, dir_cluster) IN
    IF ~r.ok THEN r
    ELSE LowOk(SelectSeq(r.val, LAMBDA e : e.name = name))

\* the for loop of resolve_path from part i on
RECURSIVE walk(_, _, _, _)
walk(bad, parts, i, current_cluster) ==
    LET f == find_in_directory(bad, current_cluster, parts[i]) IN
    IF ~f.ok THEN f
    ELSE IF f.val = <<>> THEN LowErr("path not found")
    ELSE IF i = Len(parts) THEN LowOk(f.val)
    ELSE IF ~f.val[1].dir THEN LowErr("not a directory")
    ELSE walk(bad, parts, i + 1, f.val[1].cluster)

\* path.split('/').filter(|s| !s.is_empty())
parts_of(path) == SelectSeq(split(path, 1, <<>>), LAMBDA piece : piece # <<>>)

\* Fat32Inner::resolve_path: the entry found, or none for the root
fat_resolve_path(bad, path) ==
    IF parts_of(path) = <<>> THEN LowOk(<<>>)
    ELSE walk(bad, parts_of(path), 1, root_cluster)

\* Fat32Inner::split_path
split_path(bad, path) ==
    LET parts == parts_of(path)
        parent == IF Len(parts) > 1
                  THEN walk(bad, SubSeq(parts, 1, Len(parts) - 1), 1, root_cluster)
                  ELSE LowOk(<<>>)
    IN IF parts = <<>> THEN LowErr("invalid path")
       ELSE IF ~parent.ok THEN parent
       ELSE IF parent.val # <<>> /\ ~parent.val[1].dir
            THEN LowErr("parent is not a directory")
       ELSE LowOk(IF parent.val = <<>> THEN root_cluster ELSE parent.val[1].cluster)

\* Fat32Fs::open
fat_open(bad, path, creat) ==
    LET r == fat_resolve_path(bad, path)
        sp == split_path(bad, path)
    IN IF ~r.ok THEN VErr("NotFound", r)
       ELSE IF r.val # <<>>
            THEN IF r.val[1].dir THEN Failed("IsADirectory")
                 ELSE IF ~read_chain(bad, r.val[1].cluster).ok
                      THEN VErr("IoError", read_chain(bad, r.val[1].cluster))
                 ELSE VOk
       ELSE IF ~creat THEN Failed("NotFound")
       ELSE IF ~sp.ok THEN VErr("InvalidPath", sp)
       ELSE IF ~read_chain(bad, sp.val).ok
            THEN VErr("IoError", read_chain(bad, sp.val))
       ELSE VOk

\* Fat32Fs::readdir
fat_readdir(bad, path) ==
    LET r == fat_resolve_path(bad, path)
        cluster == IF parts_of(path) = <<>> THEN root_cluster ELSE r.val[1].cluster
    IN IF parts_of(path) # <<>> /\ ~r.ok THEN VErr("NotFound", r)
       ELSE IF parts_of(path) # <<>> /\ r.val = <<>> THEN Failed("NotFound")
       ELSE IF parts_of(path) # <<>> /\ ~r.val[1].dir THEN Failed("NotADirectory")
       ELSE IF ~read_directory(bad, cluster).ok
            THEN VErr("IoError", read_directory(bad, cluster))
       ELSE VOk

\* Fat32Fs::metadata
fat_metadata(bad, path) ==
    LET r == fat_resolve_path(bad, path) IN
    IF parts_of(path) = <<>> THEN VOk
    ELSE IF ~r.ok THEN VErr("NotFound", r)
    ELSE IF r.val = <<>> THEN Failed("NotFound")
    ELSE VOk

\* Vfs::open, Vfs::readdir, Vfs::metadata with the volume mounted at `/`:
\* the lookup, then the call into the driver with the subpath
dispatch(op, bad, path, creat) ==
    LET at == resolve(<<<<"/">>>>, path) IN
    IF ~at.ok THEN Failed(at.err)
    ELSE IF op = "open" THEN fat_open(bad, at.sub, creat)
    ELSE IF op = "readdir" THEN fat_readdir(bad, at.sub)
    ELSE fat_metadata(bad, at.sub)

FatPaths == {<<"/">> \o str : str \in Strings({"/", "a", "f"}, MaxFatLen - 1)}

\* a call reads the volume and leaves it as it is, so one call from the
\* start reaches every result
vfs_open ==
    \E path \in FatPaths, bad \in SUBSET Clusters, creat \in BOOLEAN :
        /\ fat_last.op = "new"
        /\ fat_last' = FatCall(IF creat THEN "open_creat" ELSE "open", path, bad,
                               dispatch("open", bad, path, creat))
        /\ UNCHANGED <<schedVars, pmmVars, vmmVars, fdVars, vfsVars, kbVars, tmpVars, diskVars, fhVars, copyVars, irqVars, stackVars>>

vfs_readdir ==
    \E path \in FatPaths, bad \in SUBSET Clusters :
        /\ fat_last.op = "new"
        /\ fat_last' = FatCall("readdir", path, bad, dispatch("readdir", bad, path, FALSE))
        /\ UNCHANGED <<schedVars, pmmVars, vmmVars, fdVars, vfsVars, kbVars, tmpVars, diskVars, fhVars, copyVars, irqVars, stackVars>>

vfs_metadata ==
    \E path \in FatPaths, bad \in SUBSET Clusters :
        /\ fat_last.op = "new"
        /\ fat_last' = FatCall("metadata", path, bad, dispatch("metadata", bad, path, FALSE))
        /\ UNCHANGED <<schedVars, pmmVars, vmmVars, fdVars, vfsVars, kbVars, tmpVars, diskVars, fhVars, copyVars, irqVars, stackVars>>

FatNext ==
    \/ vfs_open
    \/ vfs_readdir
    \/ vfs_metadata

FatSpec == Init /\ [][FatNext]_vars

\* ------------------------------------------------------------ claim C27
\* C27: a FAT32 file is created by open(CREAT|WRONLY): with a readable
\* device, the open of a name that is missing in an existing directory
\* succeeds (so that D can be written to it, closed and read back).
C27_CreateOpens ==
    (/\ fat_last.op = "open_creat"
     /\ fat_last.bad = {}
     /\ parts_of(fat_last.path) \in {<<<<"f", "f">>>>, <<<<"a">>, <<"a">>>>})
        => fat_last.ok

\* ------------------------------------------------------------ claim C20
\* C20: when the block device fails during a FAT32 open, readdir or metadata
\* call, the VFS caller gets IoError, not NotFound or another category.
C20_DeviceFailureIsIoError ==
    fat_last.io => (~fat_last.ok /\ fat_last.err = "IoError")

\* ============================================ stdin (drivers/keyboard.rs,
\* cpu/syscall.rs SYS_READ with fd 0)
BUFFER_SIZE == 256

\* Keyboard::push: dropped when the ring is full
push(buffer, c) ==
    IF Len(buffer) + 1 = BUFFER_SIZE THEN buffer ELSE Append(buffer, c)

\* Keyboard::pop
pop(buffer) ==
    IF buffer = <<>> THEN [some |-> FALSE, c |-> "", buffer |-> buffer]
    ELSE [some |-> TRUE, c |-> Head(buffer), buffer |-> Tail(buffer)]

\* handle_scancode for a key that has an ASCII value
handle_scancode ==
    \E c \in {"a", "\n"} :
        /\ pressed < MaxKeys
        /\ pressed' = pressed + 1
        /\ kb' = push(kb, c)
        /\ UNCHANGED <<rd, schedVars, pmmVars, vmmVars, fdVars, vfsVars, fatVars, tmpVars, diskVars, fhVars, copyVars, irqVars, stackVars>>

\* SYS_READ is entered with fd = 0
read_enter ==
    \E len \in 0 .. MaxLen :
        /\ rd.pc \in {"none", "returned"}
        /\ rd' = StdinRead("wait", len, <<>>)
        /\ UNCHANGED <<kb, pressed, schedVars, pmmVars, vmmVars, fdVars, vfsVars, fatVars, tmpVars, diskVars, fhVars, copyVars, irqVars, stackVars>>

\* while !keyboard::has_input() { hlt() }
read_wait ==
    /\ rd.pc = "wait"
    /\ kb # <<>>
    /\ rd' = [rd EXCEPT !.pc = "loop"]
    /\ UNCHANGED <<kb, pressed, schedVars, pmmVars, vmmVars, fdVars, vfsVars, fatVars, tmpVars, diskVars, fhVars, copyVars, irqVars, stackVars>>

\* one turn of `while count < len`, with the return that follows the loop
read_loop ==
    LET p == pop(kb) IN
    /\ rd.pc = "loop"
    /\ IF Len(rd.buf) >= rd.len
       THEN rd' = [rd EXCEPT !.pc = "returned"] /\ UNCHANGED kb
       ELSE /\ kb' = p.buffer
            /\ rd' = IF ~p.some THEN [rd EXCEPT !.pc = "returned"]
                     ELSE IF p.c = "\n"
                          THEN [rd EXCEPT !.pc = "returned", !.buf = Append(@, p.c)]
                     ELSE [rd EXCEPT !.buf = Append(@, p.c)]
    /\ UNCHANGED <<pressed, schedVars, pmmVars, vmmVars, fdVars, vfsVars, fatVars, tmpVars, diskVars, fhVars, copyVars, irqVars, stackVars>>

KbNext ==
    \/ handle_scancode
    \/ read_enter
    \/ read_wait
    \/ read_loop

KbSpec == Init /\ [][KbNext]_vars

\* ------------------------------------------------------------ claim C21
\* C21: a read on stdin with len > 0 returns only after it stored a newline
\* or len bytes, never a shorter fragment of a line.
C21_StdinReadsWholeLine ==
    (rd.pc = "returned" /\ rd.len > 0) =>
        \/ Len(rd.buf) = rd.len
        \/ (rd.buf # <<>> /\ rd.buf[Len(rd.buf)] = "\n")

\* ================================================= TmpFs (vfs/tmpfs.rs)
\* the node at a path, the root being a directory
node_at(root, path) == IF path = <<>> THEN Directory ELSE root[path]

\* TmpFs::navigate / navigate_mut from part i on: the node's path, or the
\* error of the first part that is missing or lies below a file
RECURSIVE navigate(_, _, _)
navigate(root, parts, i) ==
    IF i > Len(parts) THEN [ok |-> TRUE, err |-> "", path |-> parts]
    ELSE IF node_at(root, SubSeq(parts, 1, i - 1)).file
         THEN [ok |-> FALSE, err |-> "NotADirectory", path |-> <<>>]
    ELSE IF SubSeq(parts, 1, i) \notin DOMAIN root
         THEN [ok |-> FALSE, err |-> "NotFound", path |-> <<>>]
    ELSE navigate(root, parts, i + 1)

\* TmpFs::navigate_to_parent followed by parent.as_dir_mut()
navigate_to_parent(root, parts) ==
    LET up == navigate(root, SubSeq(parts, 1, Len(parts) - 1), 1) IN
    IF parts = <<>> THEN [ok |-> FALSE, err |-> "InvalidPath", path |-> <<>>]
    ELSE IF ~up.ok THEN up
    ELSE IF node_at(root, up.path).file
         THEN [ok |-> FALSE, err |-> "NotADirectory", path |-> <<>>]
    ELSE up

\* the map with one more node, and without one
insert(root, path, node) == [p \in DOMAIN root \cup {path} |->
                                 IF p = path THEN node ELSE root[p]]

remove(root, path) == [p \in DOMAIN root \ {path} |-> root[p]]

\* is_empty that finds every directory empty (mutant)
is_empty_always(root, path) == TRUE

\* entries.is_empty() of the directory at path
is_empty(root, path) ==
    ~\E p \in DOMAIN root : Len(p) = Len(path) + 1 /\ SubSeq(p, 1, Len(path)) = path

TmpPaths == {<<"f">>, <<"a", "f">>}

Bytes == {1, 2}

Buffers == UNION {[1 .. n -> Bytes] : n \in 0 .. MaxLen}

FlagSets ==
    {O_RDONLY,
     OpenFlags(FALSE, TRUE, TRUE, FALSE, FALSE),    \* O_CREAT | O_WRONLY
     OpenFlags(FALSE, TRUE, FALSE, FALSE, TRUE),    \* O_WRONLY | O_APPEND
     OpenFlags(TRUE, TRUE, FALSE, FALSE, FALSE),    \* O_RDWR
     OpenFlags(FALSE, TRUE, FALSE, TRUE, FALSE)}    \* O_WRONLY | O_TRUNC

\* TmpFs::open
tmpfs_open ==
    \E parts \in TmpPaths \cup {<<>>}, flags \in FlagSets :
        LET node_result == navigate(tmp_root, parts, 1)
            up == navigate_to_parent(tmp_root, parts)
            node == node_at(tmp_root, parts)
            data == IF flags.truncate THEN <<>> ELSE node.data
            position == IF flags.append THEN Len(data) ELSE 0
            new == ~node_result.ok /\ node_result.err = "NotFound" /\ flags.create
            plain == flags.write /\ ~flags.append /\ ~flags.truncate
        IN
        /\ ~fh.open
        /\ IF parts = <<>>
           THEN /\ fh_last' = TmpCall("open", FALSE, "IsADirectory", 0, FALSE)
                /\ UNCHANGED <<tmp_root, fh, hist>>
           ELSE IF node_result.ok
           THEN IF node.file
                THEN /\ fh' = TmpFileHandle(data, position, parts, flags)
                     /\ fh_last' = TmpCall("open", TRUE, "", 0, FALSE)
                     /\ hist' = IF flags = O_RDONLY /\ hist.fresh /\ hist.closed
                                THEN [hist EXCEPT !.reading = TRUE, !.got = <<>>,
                                                  !.eof = FALSE]
                                ELSE NoHist
                     /\ UNCHANGED tmp_root
                ELSE /\ fh_last' = TmpCall("open", FALSE, "IsADirectory", 0, FALSE)
                     /\ UNCHANGED <<tmp_root, fh, hist>>
           ELSE IF new
           THEN IF up.ok
                THEN /\ tmp_root' = insert(tmp_root, parts, File(<<>>))
                     /\ fh' = TmpFileHandle(<<>>, 0, parts, flags)
                     /\ fh_last' = TmpCall("open", TRUE, "", 0, FALSE)
                     /\ hist' = [NoHist EXCEPT !.fresh = plain]
                ELSE /\ fh_last' = TmpCall("open", FALSE, up.err, 0, FALSE)
                     /\ UNCHANGED <<tmp_root, fh, hist>>
           ELSE /\ fh_last' = TmpCall("open", FALSE, node_result.err, 0, FALSE)
                /\ UNCHANGED <<tmp_root, fh, hist>>
        /\ UNCHANGED <<schedVars, pmmVars, vmmVars, fdVars, vfsVars, fatVars, kbVars, diskVars, fhVars, copyVars, irqVars, stackVars>>

\* TmpFileHandle::read into a buffer of len bytes: the slice
\* data[position .. position + to_read] panics when position is past the end
tmpfs_read ==
    \E len \in 0 .. MaxLen :
        LET available == IF Len(fh.data) > fh.position
                         THEN Len(fh.data) - fh.position ELSE 0
            to_read == IF len < available THEN len ELSE available
            bytes == SubSeq(fh.data, fh.position + 1, fh.position + to_read)
        IN
        /\ fh.open
        /\ ~fh_last.panic
        /\ IF ~fh.flags.read
           THEN /\ fh_last' = TmpCall("read", FALSE, "PermissionDenied", 0, FALSE)
                /\ UNCHANGED <<fh, hist>>
           ELSE IF fh.position > Len(fh.data)
           THEN /\ fh_last' = TmpCall("read", FALSE, "", 0, TRUE)
                /\ UNCHANGED <<fh, hist>>
           ELSE /\ fh' = [fh EXCEPT !.position = @ + to_read]
                /\ fh_last' = [len |-> len] @@ TmpCall("read", TRUE, "", to_read, FALSE)
                /\ hist' = IF hist.reading
                           THEN [hist EXCEPT !.got = @ \o bytes,
                                             !.eof = (len > 0 /\ to_read = 0)]
                           ELSE hist
        /\ UNCHANGED <<tmp_root, schedVars, pmmVars, vmmVars, fdVars, vfsVars, fatVars, kbVars, diskVars, fhVars, copyVars, irqVars, stackVars>>

\* data.resize(n, 0) when n is beyond the end
resize(data, n) == [k \in 1 .. n |-> IF k <= Len(data) THEN data[k] ELSE 0]

\* data[position .. position + len(buf)].copy_from_slice(buf)
copy_from_slice(data, position, buf) ==
    [k \in 1 .. Len(data) |->
        IF k > position /\ k <= position + Len(buf) THEN buf[k - position] ELSE data[k]]

\* the mutant of the write: the position is left where it was
tmpfs_write_keep ==
    \E buf \in Buffers :
        /\ fh.open /\ fh.flags.write /\ ~fh_last.panic
        /\ fh.position + Len(buf) <= MaxFile
        /\ LET data == copy_from_slice(resize(fh.data, fh.position + Len(buf)),
                                       fh.position, buf)
           IN /\ fh' = [fh EXCEPT !.data = data]
              /\ tmp_root' = IF fh.path \in DOMAIN tmp_root /\ tmp_root[fh.path].file
                             THEN [tmp_root EXCEPT ![fh.path] = File(data)]
                             ELSE tmp_root
        /\ fh_last' = TmpCall("write", TRUE, "", Len(buf), FALSE)
        /\ hist' = IF hist.fresh THEN [hist EXCEPT !.D = @ \o buf] ELSE hist
        /\ UNCHANGED <<schedVars, pmmVars, vmmVars, fdVars, vfsVars, fatVars, kbVars, diskVars, fhVars, copyVars, irqVars, stackVars>>

\* TmpFileHandle::write, with the copy of the data into the node
tmpfs_write ==
    \E buf \in Buffers :
        LET position == IF fh.flags.append THEN Len(fh.data) ELSE fh.position
            end_position == position + Len(buf)
            grown == IF end_position > Len(fh.data)
                     THEN resize(fh.data, end_position) ELSE fh.data
            data == copy_from_slice(grown, position, buf)
            at == navigate(tmp_root, fh.path, 1)
        IN
        /\ fh.open
        /\ ~fh_last.panic
        /\ end_position <= MaxFile
        /\ IF ~fh.flags.write
           THEN /\ fh_last' = TmpCall("write", FALSE, "PermissionDenied", 0, FALSE)
                /\ UNCHANGED <<tmp_root, fh, hist>>
           ELSE /\ fh' = [fh EXCEPT !.data = data, !.position = end_position]
                /\ tmp_root' = IF at.ok /\ tmp_root[fh.path].file
                               THEN [tmp_root EXCEPT ![fh.path] = File(data)]
                               ELSE tmp_root
                /\ fh_last' = TmpCall("write", TRUE, "", Len(buf), FALSE)
                /\ hist' = IF hist.fresh THEN [hist EXCEPT !.D = @ \o buf] ELSE hist
        /\ UNCHANGED <<schedVars, pmmVars, vmmVars, fdVars, vfsVars, fatVars, kbVars, diskVars, fhVars, copyVars, irqVars, stackVars>>

\* TmpFileHandle::seek
tmpfs_seek ==
    \E whence \in {"Start", "Current", "End"}, n \in -1 .. (MaxFile + 1) :
        LET new_pos == IF whence = "Start" THEN n
                       ELSE IF whence = "Current" THEN fh.position + n
                       ELSE Len(fh.data) + n
        IN
        /\ fh.open
        /\ ~fh_last.panic
        /\ whence = "Start" => n >= 0
        /\ new_pos <= MaxFile + 1
        /\ IF new_pos < 0
           THEN /\ fh_last' = TmpCall("seek", FALSE, "InvalidPath", 0, FALSE)
                /\ UNCHANGED <<fh, hist>>
           ELSE /\ fh' = [fh EXCEPT !.position = new_pos]
                /\ fh_last' = TmpCall("seek", TRUE, "", new_pos, FALSE)
                /\ hist' = NoHist
        /\ UNCHANGED <<tmp_root, schedVars, pmmVars, vmmVars, fdVars, vfsVars, fatVars, kbVars, diskVars, fhVars, copyVars, irqVars, stackVars>>

\* the handle is dropped by FdTable::close
tmpfs_close ==
    /\ fh.open
    /\ ~fh_last.panic
    /\ fh' = NoHandle
    /\ fh_last' = TmpCall("close", TRUE, "", 0, FALSE)
    /\ hist' = IF hist.fresh THEN [hist EXCEPT !.closed = TRUE] ELSE NoHist
    /\ UNCHANGED <<tmp_root, schedVars, pmmVars, vmmVars, fdVars, vfsVars, fatVars, kbVars, diskVars, fhVars, copyVars, irqVars, stackVars>>

\* TmpFs::remove
tmpfs_remove ==
    \E parts \in TmpPaths \cup {<<>>} :
        LET up == navigate_to_parent(tmp_root, parts) IN
        /\ ~fh.open
        /\ IF parts = <<>>
           THEN /\ fh_last' = TmpCall("remove", FALSE, "PermissionDenied", 0, FALSE)
                /\ UNCHANGED <<tmp_root, hist>>
           ELSE IF ~up.ok
           THEN /\ fh_last' = TmpCall("remove", FALSE, up.err, 0, FALSE)
                /\ UNCHANGED <<tmp_root, hist>>
           ELSE IF parts \notin DOMAIN tmp_root
           THEN /\ fh_last' = TmpCall("remove", FALSE, "NotFound", 0, FALSE)
                /\ UNCHANGED <<tmp_root, hist>>
           ELSE IF ~tmp_root[parts].file
           THEN /\ fh_last' = TmpCall("remove", FALSE, "IsADirectory", 0, FALSE)
                /\ UNCHANGED <<tmp_root, hist>>
           ELSE /\ tmp_root' = remove(tmp_root, parts)
                /\ fh_last' = TmpCall("remove", TRUE, "", 0, FALSE)
                /\ hist' = NoHist
        /\ UNCHANGED <<fh, schedVars, pmmVars, vmmVars, fdVars, vfsVars, fatVars, kbVars, diskVars, fhVars, copyVars, irqVars, stackVars>>

TmpNext ==
    \/ tmpfs_open
    \/ tmpfs_read
    \/ tmpfs_write
    \/ tmpfs_seek
    \/ tmpfs_close
    \/ tmpfs_remove

TmpSpec == Init /\ [][TmpNext]_vars

\* ------------------------------------------------------------ claim C23
\* C23: on TmpFs, a file made by open(CREAT|WRONLY) of a path that did not
\* exist, written with buffers whose concatenation is D and closed, holds D;
\* a later open(RDONLY) reads bytes of D in order and has read exactly D
\* when a read returns 0.
C23_WriteCloseReadBack ==
    /\ (hist.fresh /\ hist.closed /\ ~fh.open) =>
           (<<"f">> \in DOMAIN tmp_root /\ tmp_root[<<"f">>] = File(hist.D))
    /\ hist.reading =>
           /\ Len(hist.got) <= Len(hist.D)
           /\ hist.got = SubSeq(hist.D, 1, Len(hist.got))
           /\ hist.eof => hist.got = hist.D

\* two writes made a two-byte file that was read back to the end
C23_Witness ==
    /\ hist.reading /\ hist.eof
    /\ hist.got = <<1, 2>>
    /\ fh_last.op = "read" /\ fh_last.n = 0

\* ------------------------------------------------------------ claim C24
\* C24: a read on an open file handle never faults and returns a count of at
\* most the buffer length, also at positions that seek put past the end of
\* the data, where it returns 0.
C24_ReadNeverFaults ==
    fh_last.op = "read" =>
        /\ ~fh_last.panic
        /\ fh_last.ok => fh_last.n <= fh_last.len

\* ===================================== FAT32 cluster chains (vfs/fat32.rs)
\* The volume is threaded through the driver's functions as a record d of
\* the table, the clusters and the first error met.
Disk(f, s) == [fat |-> f, store |-> s, err |-> "", ret |-> 0]

\* set_fat_entry without the write (mutant)
set_fat_entry_lost(d, cluster, value) == d

\* set_fat_entry
set_fat_entry(d, cluster, value) == [d EXCEPT !.fat[cluster] = value]

\* allocate_cluster: the first free cluster, marked end-of-chain and zeroed
allocate_cluster(d) ==
    LET free == {c \in ClusterIds : d.fat[c] = FAT32_FREE} IN
    IF free = {} THEN [d EXCEPT !.err = "no free clusters"]
    ELSE LET cluster == CHOOSE c \in free : \A o \in free : c <= o IN
         [set_fat_entry(d, cluster, FAT32_EOC) EXCEPT
              !.store[cluster] = zeroed, !.ret = cluster]

\* extend_chain
extend_chain(d, last_cluster) ==
    LET a == allocate_cluster(d) IN
    IF a.err # "" THEN a ELSE set_fat_entry(a, last_cluster, a.ret)

\* read_chain: the clusters from start until an entry outside 2 .. EOC - 1
RECURSIVE inner_read_chain(_, _)
inner_read_chain(d, cluster) ==
    IF cluster < 2 \/ cluster >= FAT32_EOC THEN <<>>
    ELSE d.store[cluster] \o inner_read_chain(d, d.fat[cluster])

cluster_buf_first(data, offset) ==
    [k \in 1 .. bytes_per_cluster |-> IF k <= Len(data) THEN data[k] ELSE 0]

\* buf.fill(0); buf[..end - offset].copy_from_slice(&data[offset..end])
cluster_buf(data, offset) ==
    [k \in 1 .. bytes_per_cluster |->
        IF offset + k <= Len(data) THEN data[offset + k] ELSE 0]

\* the for loop of write_chain from cluster number i (counted from 0) on;
\* cluster_to_sector computes cluster - 2 in u32, so that write_cluster of a
\* cluster below 2 overflows: the call ends there
RECURSIVE write_clusters(_, _, _, _, _)
write_clusters(d, data, clusters_needed, i, cluster) ==
    IF cluster < 2 THEN [d EXCEPT !.err = "cluster below 2"] ELSE
    LET w == [d EXCEPT !.store[cluster] = cluster_buf(data, i * bytes_per_cluster)]
        next == w.fat[cluster]
        e == extend_chain(w, cluster)
    IN
    IF i + 1 >= clusters_needed THEN [w EXCEPT !.ret = cluster]
    ELSE IF next >= FAT32_EOC
         THEN IF e.err # "" THEN e
              ELSE write_clusters(e, data, clusters_needed, i + 1, e.ret)
    ELSE write_clusters(w, data, clusters_needed, i + 1, next)

\* write_chain: .ret is the first cluster of the chain
write_chain(d, start, data) ==
    LET clusters_needed == (Len(data) + bytes_per_cluster - 1) \div bytes_per_cluster
        a == IF start < 2 THEN allocate_cluster(d) ELSE [d EXCEPT !.ret = start]
        first == a.ret
        w == write_clusters(a, data, clusters_needed, 0, first)
    IN
    IF clusters_needed = 0 THEN [d EXCEPT !.ret = start]
    ELSE IF a.err # "" THEN a
    ELSE IF w.err # "" THEN w
    ELSE [set_fat_entry(w, w.ret, FAT32_EOC) EXCEPT !.ret = first]

\* the chains a volume holds before the call: the clusters of one file in
\* the order of the chain, and a cluster of another file
Chains == {<<>>, <<2>>, <<3, 2>>, <<2, 4, 3>>, <<4, 6, 2>>}

chain_fat(chain, other) ==
    [c \in ClusterIds |->
        IF c = other THEN FAT32_EOC
        ELSE IF \E k \in 1 .. Len(chain) : chain[k] = c
             THEN LET k == CHOOSE k \in 1 .. Len(chain) : chain[k] = c IN
                  IF k = Len(chain) THEN FAT32_EOC ELSE chain[k + 1]
        ELSE FAT32_FREE]

\* the bytes of a file and of what was on the volume before
pattern(len) == [k \in 1 .. len |-> 1 + (k % 251)]

old_bytes == [k \in 1 .. bytes_per_cluster |-> 255]

\* lengths at the cluster boundaries
DataLens ==
    {n \in 0 .. (MaxChain * bytes_per_cluster + 1) :
        \E d \in {-1, 0, 1} : (n + d) % bytes_per_cluster = 0}

ChainInit ==
    /\ BootSched
    /\ BootPmm
    /\ BootVmm
    /\ BootFd
    /\ BootVfs
    /\ BootFat
    /\ BootKb
    /\ BootTmp
    /\ BootFh
    /\ BootCopies
    /\ BootIrq
    /\ BootStacks
    /\ \E chain \in Chains, other \in {0, 5} :
        /\ fat = chain_fat(chain, other)
        /\ store = [c \in ClusterIds |-> IF fat[c] = FAT32_FREE THEN zeroed ELSE old_bytes]
        /\ ch_last = ChainCall("new", IF chain = <<>> THEN 0 ELSE chain[1], Len(chain),
                               TRUE, 0, <<>>)
        /\ dir_last = DirCall("new", <<>>, TRUE, "", FALSE, <<>>, <<>>)

\* write_chain(start, D) on the chain found, or with a start below 2
chain_write ==
    \E start \in {0, 1, ch_last.start}, len \in DataLens :
        LET w == write_chain(Disk(fat, store), start, pattern(len)) IN
        /\ ch_last.op = "new"
        /\ fat' = w.fat
        /\ store' = w.store
        /\ ch_last' = ChainCall("write_chain", start, len, w.err = "", w.ret, <<>>)
        /\ UNCHANGED <<dir_last, schedVars, pmmVars, vmmVars, fdVars, vfsVars, fatVars, kbVars, tmpVars, fhVars, copyVars, irqVars, stackVars>>

\* read_chain of the chain that write_chain returned
chain_read ==
    /\ ch_last.op = "write_chain"
    /\ ch_last.ok
    /\ ch_last' = [ch_last EXCEPT !.op = "read_chain",
                                  !.data = inner_read_chain(Disk(fat, store), ch_last.first)]
    /\ UNCHANGED <<fat, store, dir_last, schedVars, pmmVars, vmmVars, fdVars, vfsVars, fatVars, kbVars, tmpVars, fhVars, copyVars, irqVars, stackVars>>

ChainNext ==
    \/ chain_write
    \/ chain_read

ChainSpec == ChainInit /\ [][ChainNext]_vars

\* ------------------------------------------------------------ claim C28
\* C28: read_chain of the chain that write_chain(c, D) returned, cut to the
\* length of D, is D, for c below 2 and for c that starts a chain shorter
\* than, as long as or longer than D needs.
C28_ChainRoundTrip ==
    ch_last.op = "read_chain" =>
        /\ Len(ch_last.data) >= ch_last.len
        /\ SubSeq(ch_last.data, 1, ch_last.len) = pattern(ch_last.len)

\* D fills one cluster and one byte of the next, written over a chain of
\* three clusters
C28_Witness ==
    /\ ch_last.op = "read_chain"
    /\ ch_last.len = bytes_per_cluster + 1
    /\ ch_last.start = 4
    /\ ch_last.first = 4

\* ------------------------------------------------------------ claim C29
\* the clusters met from c by following the table, at most n of them
RECURSIVE follow(_, _, _)
follow(f, c, n) ==
    IF n = 0 \/ c < 2 \/ c >= FAT32_EOC THEN <<>>
    ELSE <<c>> \o follow(f, f[c], n - 1)

\* C29: after write_chain(start, D) with D not empty returned first, the
\* table leads from first through exactly ceil(|D| / bytes_per_cluster)
\* clusters and the entry of the last one is an end-of-chain value.
C29_ChainLengthAndEnd ==
    (ch_last.op = "write_chain" /\ ch_last.ok /\ ch_last.len > 0) =>
        LET visited == follow(fat, ch_last.first, MaxClusters + 1)
            needed == (ch_last.len + bytes_per_cluster - 1) \div bytes_per_cluster
        IN /\ Len(visited) = needed
           /\ fat[visited[needed]] >= FAT32_EOC

\* a chain of three clusters written with data for one (shrink)
C29_Witness ==
    /\ ch_last.op = "write_chain" /\ ch_last.ok
    /\ ch_last.start = 2 /\ ch_last.first = 2
    /\ ch_last.len = 1
    /\ fat[3] # FAT32_FREE /\ fat[4] # FAT32_FREE

\* a chain of one cluster written with data for three (growth)
C29_WitnessGrow ==
    /\ ch_last.op = "write_chain" /\ ch_last.ok
    /\ ch_last.len = 2 * bytes_per_cluster + 1
    /\ ch_last.start = 0

\* ================================= FAT32 directory entries (vfs/fat32.rs)
\* Names are sequences of character codes; a directory is the bytes of its
\* chain, 32 bytes to an entry.
DIR_ENTRY_SIZE == 32

DELETED_MARKER == 229

ATTR_DIRECTORY == 16

ATTR_ARCHIVE == 32

ATTR_LFN == 15

LFN_LAST_ENTRY == 64

is_ascii_lowercase(c) == c >= 97 /\ c <= 122

is_ascii_alphanumeric(c) ==
    (c >= 48 /\ c <= 57) \/ (c >= 65 /\ c <= 90) \/ is_ascii_lowercase(c)

to_uppercase(str) == [k \in 1 .. Len(str) |-> IF is_ascii_lowercase(str[k]) THEN str[k] - 32 ELSE str[k]]

to_lowercase(str) == [k \in 1 .. Len(str) |-> IF str[k] >= 65 /\ str[k] <= 90 THEN str[k] + 32 ELSE str[k]]

\* to_le_bytes of a u16 and a u32, and from_le_bytes
le16(v) == <<v % 256, v \div 256>>

le32(v) == <<v % 256, (v \div 256) % 256, (v \div 65536) % 256, v \div 16777216>>

from_le(bytes) ==
    IF Len(bytes) = 2 THEN bytes[1] + 256 * bytes[2]
    ELSE bytes[1] + 256 * bytes[2] + 65536 * bytes[3] + 16777216 * bytes[4]

\* rsplitn(2, '.'): the index of the last '.', 0 without one
last_dot(str) ==
    LET dots == {k \in 1 .. Len(str) : str[k] = 46} IN
    IF dots = {} THEN 0 ELSE CHOOSE k \in dots : \A o \in dots : o <= k

\* make_short_name
make_short_name(name) ==
    LET name_upper == to_uppercase(name)
        dot == last_dot(name_upper)
        base == IF dot = 0 THEN name_upper ELSE SubSeq(name_upper, 1, dot - 1)
        ext == IF dot = 0 THEN <<>> ELSE SubSeq(name_upper, dot + 1, Len(name_upper))
        keep(c) == IF is_ascii_alphanumeric(c) \/ c = 95 \/ c = 45 THEN c ELSE 95
    IN [i \in 1 .. 11 |->
           IF i <= 8 THEN (IF i <= Len(base) THEN keep(base[i]) ELSE 32)
           ELSE (IF i - 8 <= Len(ext) THEN keep(ext[i - 8]) ELSE 32)]

\* needs_lfn
needs_lfn(name) ==
    LET dot == last_dot(name)
        ext_len == Len(name) - dot
    IN \/ Len(name) > 12
       \/ IF dot > 0 THEN dot - 1 > 8 \/ ext_len > 3 ELSE ext_len > 8
       \/ \E k \in 1 .. Len(name) :
            \/ is_ascii_lowercase(name[k])
            \/ ~is_ascii_alphanumeric(name[k]) /\ name[k] \notin {46, 95, 45}

\* lfn_checksum: sum.rotate_right(1).wrapping_add(b) over the 11 bytes
RECURSIVE checksum_from(_, _, _)
checksum_from(short_name, k, sum) ==
    IF k > 11 THEN sum
    ELSE checksum_from(short_name, k + 1,
                       ((sum \div 2) + 128 * (sum % 2) + short_name[k]) % 256)

lfn_checksum(short_name) == checksum_from(short_name, 1, 0)

\* ShortDirEntry::new
ShortDirEntry(name, attr, cluster, size) ==
    [name |-> make_short_name(name), attr |-> attr, cluster |-> cluster, size |-> size]

\* ShortDirEntry::serialize
short_serialize(e) ==
    e.name \o <<e.attr, 0, 0>> \o <<0, 0, 0, 0, 0, 0>> \o le16(e.cluster \div 65536)
        \o <<0, 0, 0, 0>> \o le16(e.cluster % 65536) \o le32(e.size)

\* ShortDirEntry::parse with ShortDirEntry::cluster
short_parse(data) ==
    [name |-> SubSeq(data, 1, 11), attr |-> data[12],
     cluster |-> 65536 * from_le(SubSeq(data, 21, 22)) + from_le(SubSeq(data, 27, 28)),
     size |-> from_le(SubSeq(data, 29, 32))]

\* ShortDirEntry::short_name without the lower-casing (mutant helper)
take_while_not_space(bytes) ==
    LET stops == {k \in 1 .. Len(bytes) : bytes[k] = 32} IN
    IF stops = {} THEN bytes
    ELSE SubSeq(bytes, 1, (CHOOSE k \in stops : \A o \in stops : k <= o) - 1)

\* ShortDirEntry::short_name
short_name(e) ==
    LET name_part == to_lowercase(take_while_not_space(SubSeq(e.name, 1, 8)))
        ext_part == to_lowercase(take_while_not_space(SubSeq(e.name, 9, 11)))
    IN IF ext_part = <<>> THEN name_part ELSE name_part \o <<46>> \o ext_part

\* LfnEntry::new: name1, name2 and name3 as one array of 13 code units
LfnEntry(seq, checksum, chars, is_last) ==
    [seq |-> IF is_last THEN seq + LFN_LAST_ENTRY ELSE seq,
     checksum |-> checksum,
     name |-> [i \in 1 .. 13 |-> IF i <= Len(chars) THEN chars[i]
                                 ELSE IF i = Len(chars) + 1 THEN 0 ELSE 65535]]

RECURSIVE le16s(_, _, _)
le16s(units, a, b) == IF a > b THEN <<>> ELSE le16(units[a]) \o le16s(units, a + 1, b)

\* LfnEntry::serialize
lfn_serialize(e) ==
    <<e.seq>> \o le16s(e.name, 1, 5) \o <<ATTR_LFN, 0, e.checksum>>
        \o le16s(e.name, 6, 11) \o <<0, 0>> \o le16s(e.name, 12, 13)

\* LfnEntry::parse
lfn_parse(data) ==
    [seq |-> data[1], checksum |-> data[14],
     name |-> [i \in 1 .. 13 |->
                  IF i <= 5 THEN from_le(SubSeq(data, 2 * i, 2 * i + 1))
                  ELSE IF i <= 11 THEN from_le(SubSeq(data, 15 + 2 * (i - 6), 16 + 2 * (i - 6)))
                  ELSE from_le(SubSeq(data, 29 + 2 * (i - 12), 30 + 2 * (i - 12)))]]

\* LfnEntry::chars: the code units before the first 0x0000 or 0xFFFF
lfn_chars(e) ==
    LET stops == {k \in 1 .. 13 : e.name[k] = 0 \/ e.name[k] = 65535} IN
    IF stops = {} THEN e.name
    ELSE SubSeq(e.name, 1, (CHOOSE k \in stops : \A o \in stops : k <= o) - 1)

\* create_lfn_entries: the entry of the last 13 characters first
create_lfn_entries(name, short) ==
    LET num_entries == (Len(name) + 12) \div 13 IN
    [j \in 1 .. num_entries |->
        LET i == num_entries - j
            end == IF i * 13 + 13 < Len(name) THEN i * 13 + 13 ELSE Len(name)
        IN LfnEntry(i + 1, lfn_checksum(short), SubSeq(name, i * 13 + 1, end),
                    i = num_entries - 1)]

\* assemble_lfn
RECURSIVE assemble_lfn(_, _)
assemble_lfn(lfn_entries, k) ==
    IF k = 0 THEN <<>> ELSE lfn_chars(lfn_entries[k]) \o assemble_lfn(lfn_entries, k - 1)

\* the greatest element of a set of numbers, none when the set is empty
greatest(set, none) == IF set = {} THEN none ELSE CHOOSE k \in set : \A o \in set : o <= k

\* the one element of a set: the({e : x \in {v}}) is e with x naming the
\* value of v, computed once
the(set) == CHOOSE x \in set : TRUE

\* a slot that holds an LFN entry, and one whose sequence number has the last bit
slot_is_lfn(slot) == slot[1] # DELETED_MARKER /\ slot[12] = ATTR_LFN

slot_is_last(slot) == slot_is_lfn(slot) /\ (slot[1] \div LFN_LAST_ENTRY) % 2 = 1

\* a slot the loop of read_directory pushes an entry for: not deleted, no LFN
\* slot, no volume label, not "." or ".."
is_listed(slot) ==
    /\ slot[1] # DELETED_MARKER
    /\ ~slot_is_lfn(slot)
    /\ the({(short.attr \div 8) % 2 = 0 /\ short_name(short) \notin {<<46>>, <<46, 46>>} :
               short \in {short_parse(slot)}})

\* the slot lfn_parts starts at when the loop reaches slot t: a deleted slot,
\* a volume label, a dot entry and a listed entry clear lfn_parts, an LFN slot
\* with the last bit restarts them, any other LFN slot is pushed
first_part(slots, t) ==
    the({greatest({o \in (cleared + 1) .. (t - 1) : slot_is_last(slots[o])}, cleared + 1) :
            cleared \in {greatest({o \in 1 .. (t - 1) : ~slot_is_lfn(slots[o])}, 0)}})

\* the FatDirEntry the loop pushes at slot t
named_entry(slots, t, lfn_parts, short) ==
    [name |-> IF lfn_parts # <<>>
                 /\ the({\A k \in 1 .. Len(lfn_parts) : lfn_parts[k].checksum = expected_checksum :
                            expected_checksum \in {lfn_checksum(short.name)}})
              THEN assemble_lfn(lfn_parts, Len(lfn_parts))
              ELSE short_name(short),
     short_entry |-> short,
     entry_offset |-> IF lfn_parts # <<>>
                      THEN DIR_ENTRY_SIZE
                               * (greatest({o \in 1 .. (t - 1) : slot_is_last(slots[o])}, 1) - 1)
                      ELSE DIR_ENTRY_SIZE * (t - 1),
     entry_count |-> Len(lfn_parts) + 1]

entry_at(slots, t) ==
    the({the({named_entry(slots, t, lfn_parts, short) :
                 lfn_parts \in {[k \in 1 .. (t - first) |-> lfn_parse(slots[first + k - 1])]},
                 short \in {short_parse(slots[t])}}) :
            first \in {first_part(slots, t)}})

\* the slots before the first one that starts with 0x00, where the loop stops
before_end(slots) ==
    the({IF ends = {} THEN DOMAIN slots
         ELSE 1 .. ((CHOOSE t \in ends : \A o \in ends : t <= o) - 1) :
            ends \in {{t \in DOMAIN slots : slots[t][1] = 0}}})

\* the while loop of read_directory over the 32-byte slots of data
entries_of(data) ==
    the({the({[k \in 1 .. Cardinality(listed) |->
                  entry_at(slots, CHOOSE t \in listed : Cardinality({o \in listed : o < t}) = k - 1)] :
                 listed \in {{t \in before_end(slots) : is_listed(slots[t])}}}) :
            slots \in {[t \in 1 .. (Len(data) \div DIR_ENTRY_SIZE) |->
                          SubSeq(data, DIR_ENTRY_SIZE * (t - 1) + 1, DIR_ENTRY_SIZE * t)]}})

\* read_directory
inner_read_directory(d, dir_cluster) == entries_of(inner_read_chain(d, dir_cluster))

\* the first loop of find_free_dir_slots from byte offset i on; .found says
\* that it returned from inside the loop
RECURSIVE free_run(_, _, _, _, _)
free_run(data, slots_needed, i, consecutive_free, start_offset) ==
    IF i + DIR_ENTRY_SIZE > Len(data)
    THEN [found |-> FALSE, consecutive_free |-> consecutive_free,
          start_offset |-> start_offset]
    ELSE IF data[i + 1] = 0 \/ data[i + 1] = DELETED_MARKER
         THEN LET start == IF consecutive_free = 0 THEN i ELSE start_offset IN
              IF consecutive_free + 1 >= slots_needed
              THEN [found |-> TRUE, consecutive_free |-> consecutive_free + 1,
                    start_offset |-> start]
              ELSE free_run(data, slots_needed, i + DIR_ENTRY_SIZE,
                            consecutive_free + 1, start)
    ELSE free_run(data, slots_needed, i + DIR_ENTRY_SIZE, 0, start_offset)

\* find_free_dir_slots: the directory's bytes, grown by one cluster when no
\* run of free slots is long enough, and the offset to write at
find_free_dir_slots(d, dir_cluster, slots_needed) ==
    LET data == inner_read_chain(d, dir_cluster)
        r == free_run(data, slots_needed, 0, 0, 0)
    IN IF r.found THEN [data |-> data, offset |-> r.start_offset]
       ELSE [data |-> data \o zeroed,
             offset |-> IF r.consecutive_free > 0 THEN r.start_offset ELSE Len(data)]

\* data[offset .. offset + len].copy_from_slice(bytes)
splice(data, offset, bytes) ==
    [k \in 1 .. Len(data) |->
        IF k > offset /\ k <= offset + Len(bytes) THEN bytes[k - offset] ELSE data[k]]

RECURSIVE serialize_all(_, _)
serialize_all(lfn_entries, k) ==
    IF k > Len(lfn_entries) THEN <<>>
    ELSE lfn_serialize(lfn_entries[k]) \o serialize_all(lfn_entries, k + 1)

\* add_dir_entry: .err is "panic" when a slice it writes lies outside data
add_dir_entry(d, dir_cluster, name, attr, cluster, size) ==
    LET lfn_entries == IF needs_lfn(name)
                       THEN create_lfn_entries(name, make_short_name(name))
                       ELSE <<>>
        slots_needed == Len(lfn_entries) + 1
        found == find_free_dir_slots(d, dir_cluster, slots_needed)
        bytes == serialize_all(lfn_entries, 1)
                     \o short_serialize(ShortDirEntry(name, attr, cluster, size))
    IN IF found.offset + Len(bytes) > Len(found.data) THEN [d EXCEPT !.err = "panic"]
       ELSE write_chain(d, dir_cluster, splice(found.data, found.offset, bytes))

\* the characters of the names: A b . and the names passed to add_dir_entry
repeat(c, n) == [k \in 1 .. n |-> c]

Names255 ==
    {<<65>>,                   \* A
     <<65, 66, 46, 65>>,       \* AB.A
     <<65, 98>>,               \* Ab
     repeat(98, 14),           \* 14 characters, 2 LFN entries
     repeat(98, 255)}          \* 255 characters, 20 LFN entries

names_of(entries) == [k \in 1 .. Len(entries) |-> entries[k].name]

\* add_dir_entry(root, N, ...) followed by read_directory(root)
dir_add ==
    \E name \in Names255 :
      \E d \in {Disk(fat, store)} :
      \E before \in {names_of(inner_read_directory(d, root_cluster))} :
      \E a \in {add_dir_entry(d, root_cluster, name, ATTR_ARCHIVE, 0, 0)} :
      \E after \in {names_of(inner_read_directory(a, root_cluster))} :
        /\ ~dir_last.panic
        /\ Len(before) < MaxAdds
        /\ fat' = a.fat
        /\ store' = a.store
        /\ dir_last' = DirCall("add_dir_entry", name, a.err = "", a.err, a.err = "panic",
                               before, after)
        /\ UNCHANGED <<ch_last, schedVars, pmmVars, vmmVars, fdVars, vfsVars, fatVars, kbVars, tmpVars, fhVars, copyVars, irqVars, stackVars>>

DirEntNext ==
    \/ dir_add

DirEntSpec == Init /\ [][DirEntNext]_vars

\* ------------------------------------------------------------ claim C30
\* C30: add_dir_entry(dir, N, ...) succeeds for every name N of at most 255
\* characters and every directory state; read_directory then lists an entry
\* named exactly N and still lists every entry it listed before.
C30_AddedNameIsListed ==
    dir_last.op = "add_dir_entry" =>
        /\ dir_last.ok
        /\ \E k \in 1 .. Len(dir_last.after) : dir_last.after[k] = dir_last.name
        /\ \A k \in 1 .. Len(dir_last.before) :
               \E j \in 1 .. Len(dir_last.after) : dir_last.after[j] = dir_last.before[k]

\* ================================= FatFileHandle (vfs/fat32.rs, vfs/types.rs)
O_WRONLY == 1

O_RDWR == 2

O_TRUNC == 512

O_APPEND == 1024

\* OpenFlags::contains of one flag bit
contains(flags, other) ==
    IF other = 0 THEN flags % 4 = 0 ELSE (flags \div other) % 2 = 1

\* OpenFlags::is_writable
is_writable(flags) == flags % 4 = 1 \/ flags % 4 = 2

FatFlagSets ==
    {0, O_WRONLY + O_APPEND, O_RDWR, O_RDWR + O_APPEND, O_WRONLY + O_TRUNC + O_APPEND}

\* Fat32Fs::open of the file, which exists and is no directory
fatfh_open ==
    \E flags \in FatFlagSets :
        LET position == IF contains(flags, O_APPEND) THEN Len(ffile) ELSE 0
            data == IF contains(flags, O_TRUNC) THEN <<>> ELSE ffile
        IN
        /\ ~ffh.open
        /\ ~ffh_last.panic
        /\ ffh' = FatFileHandle(position, data, contains(flags, O_TRUNC), flags)
        /\ ffh_last' = FhCall("open", TRUE, "", <<>>, <<>>, FALSE)
        /\ UNCHANGED <<ffile, schedVars, pmmVars, vmmVars, fdVars, vfsVars, fatVars, kbVars, tmpVars, diskVars, copyVars, irqVars, stackVars>>

\* FatFileHandle::read: the slice data[position .. position + to_read]
\* panics when position lies past the end of data
fatfh_read ==
    \E len \in 0 .. MaxLen :
        LET available == IF Len(ffh.data) >= ffh.position
                         THEN Len(ffh.data) - ffh.position ELSE 0
            to_read == IF len < available THEN len ELSE available
        IN
        /\ ffh.open
        /\ ~ffh_last.panic
        /\ IF ffh.position > Len(ffh.data)
           THEN /\ ffh_last' = FhCall("read", FALSE, "", ffh.data, <<>>, TRUE)
                /\ UNCHANGED ffh
           ELSE /\ ffh' = [ffh EXCEPT !.position = ffh.position + to_read]
                /\ ffh_last' = FhCall("read", TRUE, "", ffh.data,
                                      SubSeq(ffh.data, ffh.position + 1, ffh.position + to_read),
                                      FALSE)
        /\ UNCHANGED <<ffile, schedVars, pmmVars, vmmVars, fdVars, vfsVars, fatVars, kbVars, tmpVars, diskVars, copyVars, irqVars, stackVars>>

\* FatFileHandle::write
fatfh_write ==
    \E buf \in Buffers :
        LET end_pos == ffh.position + Len(buf)
            resized == resize(ffh.data, IF end_pos > Len(ffh.data) THEN end_pos ELSE Len(ffh.data))
        IN
        /\ ffh.open
        /\ ~ffh_last.panic
        /\ end_pos <= MaxFile
        /\ IF ~is_writable(ffh.flags)
           THEN /\ ffh_last' = FhCall("write", FALSE, "PermissionDenied", ffh.data, buf, FALSE)
                /\ UNCHANGED ffh
           ELSE /\ ffh' = [ffh EXCEPT !.data = copy_from_slice(resized, ffh.position, buf),
                                      !.position = end_pos,
                                      !.dirty = TRUE]
                /\ ffh_last' = FhCall("write", TRUE, "", ffh.data, buf, FALSE)
        /\ UNCHANGED <<ffile, schedVars, pmmVars, vmmVars, fdVars, vfsVars, fatVars, kbVars, tmpVars, diskVars, copyVars, irqVars, stackVars>>

\* FatFileHandle::seek
fatfh_seek ==
    \E whence \in {"Start", "Current", "End"}, n \in -1 .. (MaxFile + 1) :
        LET new_pos == IF whence = "Start" THEN n
                       ELSE IF whence = "Current" THEN ffh.position + n
                       ELSE Len(ffh.data) + n
        IN
        /\ ffh.open
        /\ ~ffh_last.panic
        /\ whence = "Start" => n >= 0
        /\ new_pos <= MaxFile + 1
        /\ IF new_pos < 0
           THEN /\ ffh_last' = FhCall("seek", FALSE, "InvalidPath", ffh.data, <<>>, FALSE)
                /\ UNCHANGED ffh
           ELSE /\ ffh' = [ffh EXCEPT !.position = new_pos]
                /\ ffh_last' = FhCall("seek", TRUE, "", ffh.data, <<>>, FALSE)
        /\ UNCHANGED <<ffile, schedVars, pmmVars, vmmVars, fdVars, vfsVars, fatVars, kbVars, tmpVars, diskVars, copyVars, irqVars, stackVars>>

\* Drop for FatFileHandle: sync_file stores data as the file when dirty
fatfh_drop ==
    /\ ffh.open
    /\ ~ffh_last.panic
    /\ ffile' = IF ffh.dirty THEN ffh.data ELSE ffile
    /\ ffh' = [ffh EXCEPT !.open = FALSE]
    /\ ffh_last' = FhCall("drop", TRUE, "", ffh.data, <<>>, FALSE)
    /\ UNCHANGED <<schedVars, pmmVars, vmmVars, fdVars, vfsVars, fatVars, kbVars, tmpVars, diskVars, copyVars, irqVars, stackVars>>

FhNext ==
    \/ fatfh_open
    \/ fatfh_read
    \/ fatfh_write
    \/ fatfh_seek
    \/ fatfh_drop

FhSpec == Init /\ [][FhNext]_vars

\* ------------------------------------------------------------ claim C25
\* C25: a write through a handle opened with O_APPEND puts its bytes at the
\* end of the file whatever seek came before, and leaves the bytes that were
\* in the file as they were.
C25_AppendWritesAtEnd ==
    (ffh_last.op = "write" /\ ffh_last.ok /\ contains(ffh.flags, O_APPEND)) =>
        ffh.data = ffh_last.before \o ffh_last.buf

\* ================================= mkdir and rmdir (vfs/tmpfs.rs, vfs/fat32.rs)
\* a call with a path: before is the filesystem when it was made
RmCall(op, path, ok, err, before) ==
    [op |-> op, path |-> path, ok |-> ok, err |-> err, before |-> before, panic |-> FALSE]

RmPaths == {<<>>, <<"a">>, <<"a", "b">>, <<"f">>, <<"f", "b">>}

\* TmpFs::mkdir
tmpfs_mkdir ==
    \E parts \in RmPaths :
        LET up == navigate_to_parent(tmp_root, parts)
            err == IF parts = <<>> THEN "AlreadyExists"
                   ELSE IF ~up.ok THEN up.err
                   ELSE IF parts \in DOMAIN tmp_root THEN "AlreadyExists"
                   ELSE ""
        IN
        /\ tmp_root' = IF err = "" THEN insert(tmp_root, parts, Directory) ELSE tmp_root
        /\ fh_last' = RmCall("mkdir", parts, err = "", err, tmp_root)
        /\ UNCHANGED <<fh, hist, schedVars, pmmVars, vmmVars, fdVars, vfsVars, fatVars, kbVars, diskVars, fhVars, copyVars, irqVars, stackVars>>

\* TmpFs::rmdir
tmpfs_rmdir ==
    \E parts \in RmPaths :
        LET up == navigate_to_parent(tmp_root, parts)
            err == IF parts = <<>> THEN "PermissionDenied"
                   ELSE IF ~up.ok THEN up.err
                   ELSE IF parts \notin DOMAIN tmp_root THEN "NotFound"
                   ELSE IF tmp_root[parts].file THEN "NotADirectory"
                   ELSE IF ~is_empty(tmp_root, parts) THEN "NotEmpty"
                   ELSE ""
        IN
        /\ tmp_root' = IF err = "" THEN remove(tmp_root, parts) ELSE tmp_root
        /\ fh_last' = RmCall("rmdir", parts, err = "", err, tmp_root)
        /\ UNCHANGED <<fh, hist, schedVars, pmmVars, vmmVars, fdVars, vfsVars, fatVars, kbVars, diskVars, fhVars, copyVars, irqVars, stackVars>>

\* FatDirEntry::is_directory
is_directory(entry) == (entry.short_entry.attr \div ATTR_DIRECTORY) % 2 = 1

\* what find_in_directory returns, with the fields of the entry that are used
found_entry(found, entry) ==
    [found |-> found, cluster |-> entry.short_entry.cluster, dir |-> is_directory(entry),
     at |-> entry.entry_offset, count |-> entry.entry_count, short |-> entry.short_entry]

\* find_in_directory: the first entry whose name matches without case
inner_find_in_directory(d, dir_cluster, name) ==
    the({the({IF hits = {} THEN [found |-> FALSE, cluster |-> 0, dir |-> FALSE, at |-> 0, count |-> 0]
              ELSE found_entry(TRUE, entries[CHOOSE k \in hits : \A o \in hits : k <= o]) :
                 hits \in {{k \in 1 .. Len(entries) :
                              to_lowercase(entries[k].name) = to_lowercase(name)}}}) :
            entries \in {inner_read_directory(d, dir_cluster)}})

\* resolve_path from part i on: (current_cluster, Some(entry)) or an error
RECURSIVE inner_resolve_path(_, _, _, _)
inner_resolve_path(d, parts, i, current_cluster) ==
    IF parts = <<>> THEN [ok |-> TRUE, parent |-> root_cluster, entry |-> [found |-> FALSE]]
    ELSE the({IF ~entry.found THEN [ok |-> FALSE, parent |-> 0, entry |-> entry]
              ELSE IF i = Len(parts) THEN [ok |-> TRUE, parent |-> current_cluster, entry |-> entry]
              ELSE IF ~entry.dir THEN [ok |-> FALSE, parent |-> 0, entry |-> entry]
              ELSE inner_resolve_path(d, parts, i + 1, entry.cluster) :
                 entry \in {inner_find_in_directory(d, current_cluster, parts[i])}})

\* split_path: the cluster of the parent directory
inner_split_path(d, parts) ==
    IF parts = <<>> THEN [ok |-> FALSE, cluster |-> 0]
    ELSE IF Len(parts) = 1 THEN [ok |-> TRUE, cluster |-> root_cluster]
    ELSE the({IF ~up.ok THEN [ok |-> FALSE, cluster |-> 0]
              ELSE IF up.entry.dir THEN [ok |-> TRUE, cluster |-> up.entry.cluster]
              ELSE [ok |-> FALSE, cluster |-> 0] :
                 up \in {inner_resolve_path(d, SubSeq(parts, 1, Len(parts) - 1), 1, root_cluster)}})

\* free_chain
RECURSIVE free_chain(_, _)
free_chain(d, cluster) ==
    IF cluster >= 2 /\ cluster < FAT32_EOC
    THEN free_chain(set_fat_entry(d, cluster, FAT32_FREE), d.fat[cluster])
    ELSE d

\* remove_dir_entry: the slots of the entry get the deleted marker
remove_dir_entry(d, dir_cluster, entry) ==
    LET data == inner_read_chain(d, dir_cluster)
        marked == [k \in 1 .. Len(data) |->
                      IF \E i \in 0 .. (entry.count - 1) : k = entry.at + i * DIR_ENTRY_SIZE + 1
                      THEN DELETED_MARKER ELSE data[k]]
    IN write_chain(d, dir_cluster, marked)

\* the "." and ".." entries of a new directory
dot_entry(name, cluster) ==
    [name |-> [k \in 1 .. 11 |-> IF k <= Len(name) THEN name[k] ELSE 32],
     attr |-> ATTR_DIRECTORY, cluster |-> cluster, size |-> 0]

\* the cluster of a new directory: zeros after its "." and ".." entries
dir_data(dir_cluster, parent_cluster) ==
    splice(zeroed, 0, short_serialize(dot_entry(<<46>>, dir_cluster))
                          \o short_serialize(dot_entry(<<46, 46>>, parent_cluster)))

\* the paths given to FAT32: a, a/b, f and f/b
FatRmPaths ==
    {<<>>, <<<<97>>>>, <<<<97>>, <<98>>>>, <<<<102>>>>, <<<<102>>, <<98>>>>}

\* Fat32Fs::mkdir of one path
mkdir_path(parts) ==
      \E d \in {Disk(fat, store)} :
      \E up \in {inner_split_path(d, parts)} :
        /\ IF ~up.ok
           THEN /\ dir_last' = RmCall("mkdir", parts, FALSE, "InvalidPath", d)
                /\ UNCHANGED <<fat, store>>
           ELSE \E name \in {parts[Len(parts)]} :
                \E entry \in {inner_find_in_directory(d, up.cluster, name)} :
                \E a \in {allocate_cluster(d)} :
                  IF entry.found
                  THEN /\ dir_last' = RmCall("mkdir", parts, FALSE, "AlreadyExists", d)
                       /\ UNCHANGED <<fat, store>>
                  ELSE IF a.err # ""
                  THEN /\ dir_last' = RmCall("mkdir", parts, FALSE, "IoError", d)
                       /\ UNCHANGED <<fat, store>>
                  ELSE \E w \in {[a EXCEPT !.store[a.ret] = dir_data(a.ret, up.cluster)]} :
                       \E e \in {add_dir_entry(w, up.cluster, name, ATTR_DIRECTORY, a.ret, 0)} :
                         /\ fat' = IF e.err # "" THEN w.fat ELSE e.fat
                         /\ store' = IF e.err # "" THEN w.store ELSE e.store
                         /\ dir_last' = RmCall("mkdir", parts, e.err = "",
                                               IF e.err # "" THEN "IoError" ELSE "", d)
        /\ UNCHANGED <<ch_last, schedVars, pmmVars, vmmVars, fdVars, vfsVars, fatVars, kbVars, tmpVars, fhVars, copyVars, irqVars, stackVars>>

\* Fat32Fs::mkdir
fat32_mkdir ==
    \E parts \in FatRmPaths : mkdir_path(parts)

\* Fat32Fs::rmdir
fat32_rmdir ==
    \E parts \in FatRmPaths :
      \E d \in {Disk(fat, store)} :
      \E up \in {inner_split_path(d, parts)} :
        /\ IF ~up.ok
           THEN /\ dir_last' = RmCall("rmdir", parts, FALSE, "InvalidPath", d)
                /\ UNCHANGED <<fat, store>>
           ELSE \E entry \in {inner_find_in_directory(d, up.cluster, parts[Len(parts)])} :
                  IF ~entry.found
                  THEN /\ dir_last' = RmCall("rmdir", parts, FALSE, "NotFound", d)
                       /\ UNCHANGED <<fat, store>>
                  ELSE IF ~entry.dir
                  THEN /\ dir_last' = RmCall("rmdir", parts, FALSE, "NotADirectory", d)
                       /\ UNCHANGED <<fat, store>>
                  ELSE \E entries \in {inner_read_directory(d, entry.cluster)} :
                       \E freed \in {free_chain(d, entry.cluster)} :
                       \E gone \in {remove_dir_entry(freed, up.cluster, entry)} :
                         IF entries # <<>>
                         THEN /\ dir_last' = RmCall("rmdir", parts, FALSE, "NotEmpty", d)
                              /\ UNCHANGED <<fat, store>>
                         ELSE /\ fat' = IF gone.err # "" THEN freed.fat ELSE gone.fat
                              /\ store' = IF gone.err # "" THEN freed.store ELSE gone.store
                              /\ dir_last' = RmCall("rmdir", parts, gone.err = "",
                                                    IF gone.err # "" THEN "IoError" ELSE "", d)
        /\ UNCHANGED <<ch_last, schedVars, pmmVars, vmmVars, fdVars, vfsVars, fatVars, kbVars, tmpVars, fhVars, copyVars, irqVars, stackVars>>

\* both filesystems hold a file f, left by an earlier open with O_CREAT on
\* TmpFs and written by add_dir_entry on FAT32
RmInit ==
    /\ BootSched
    /\ BootPmm
    /\ BootVmm
    /\ BootFd
    /\ BootVfs
    /\ BootFat
    /\ BootKb
    /\ BootFh
    /\ BootCopies
    /\ BootIrq
    /\ BootStacks
    /\ tmp_root = [p \in {<<"f">>} |-> File(<<>>)]
    /\ fh = NoHandle
    /\ fh_last = TmpCall("new", TRUE, "", 0, FALSE)
    /\ hist = NoHist
    /\ \E blank \in {Disk([c \in ClusterIds |-> IF c = root_cluster THEN FAT32_EOC ELSE FAT32_FREE],
                          [c \in ClusterIds |-> zeroed])} :
       \E d \in {add_dir_entry(blank, root_cluster, <<102>>, ATTR_ARCHIVE, 0, 0)} :
        /\ fat = d.fat
        /\ store = d.store
    /\ ch_last = ChainCall("new", 0, 0, TRUE, 0, <<>>)
    /\ dir_last = DirCall("new", <<>>, TRUE, "", FALSE, <<>>, <<>>)

RmNext ==
    \/ tmpfs_mkdir
    \/ tmpfs_rmdir
    \/ fat32_mkdir
    \/ fat32_rmdir

RmSpec == RmInit /\ [][RmNext]_vars

\* ------------------------------------------------------------ claim C26
\* what a path names on FAT32: nothing, a file, or a directory and its entries
fat_lookup(d, parts) ==
    IF parts = <<>> THEN [kind |-> "none", entries |-> <<>>]
    ELSE the({IF ~r.ok THEN [kind |-> "none", entries |-> <<>>]
              ELSE IF ~r.entry.dir THEN [kind |-> "file", entries |-> <<>>]
              ELSE [kind |-> "dir",
                    entries |-> names_of(inner_read_directory(d, r.entry.cluster))] :
                 r \in {inner_resolve_path(d, parts, 1, root_cluster)}})

\* C26: rmdir(p) succeeds exactly when p is an existing directory without
\* entries, and then only p is gone; on a directory that has an entry it
\* fails with NotEmpty and the filesystem is as it was (TmpFs and FAT32).
C26_RmdirOnlyEmptyDirectory ==
    /\ fh_last.op = "rmdir" =>
        LET p == fh_last.path
            before == fh_last.before
            is_dir == p \in DOMAIN before /\ ~before[p].file
            has_entry == \E q \in DOMAIN before :
                             Len(q) = Len(p) + 1 /\ SubSeq(q, 1, Len(p)) = p
        IN /\ fh_last.ok <=> (is_dir /\ ~has_entry)
           /\ fh_last.ok => (DOMAIN tmp_root = DOMAIN before \ {p}
                             /\ \A q \in DOMAIN tmp_root : tmp_root[q] = before[q])
           /\ (is_dir /\ has_entry) => fh_last.err = "NotEmpty"
           /\ ~fh_last.ok => tmp_root = before
    /\ dir_last.op = "rmdir" =>
        LET p == dir_last.path
            before == dir_last.before
            now == Disk(fat, store)
            was == fat_lookup(before, p)
        IN /\ dir_last.ok <=> (was.kind = "dir" /\ was.entries = <<>>)
           /\ dir_last.ok => (/\ fat_lookup(now, p).kind = "none"
                              /\ \A q \in FatRmPaths :
                                    fat_lookup(before, q).kind = "none"
                                        => fat_lookup(now, q).kind = "none"
                              /\ \A q \in FatRmPaths :
                                    (fat_lookup(before, q).kind # "none"
                                     /\ to_lowercase(q[1]) # to_lowercase(p[1]))
                                        => fat_lookup(now, q) = fat_lookup(before, q))
           /\ (was.kind = "dir" /\ was.entries # <<>>) => dir_last.err = "NotEmpty"
           /\ ~dir_last.ok => (fat = before.fat /\ store = before.store)

\* rmdir /a has just succeeded on FAT32 in a directory whose entry b was made
\* and removed before, and rmdir /a has just failed on TmpFs, where /a/b is
\* still there.
C26_Witness ==
    /\ fh_last.op = "rmdir"
    /\ fh_last.path = <<"a">>
    /\ fh_last.err = "NotEmpty"
    /\ <<"a", "b">> \in DOMAIN tmp_root
    /\ dir_last.op = "rmdir"
    /\ dir_last.path = <<<<97>>>>
    /\ dir_last.ok
    /\ \E c \in ClusterIds :
        /\ dir_last.before.fat[c] = FAT32_EOC
        /\ dir_last.before.store[c][1] = 46
        /\ dir_last.before.store[c][2 * DIR_ENTRY_SIZE + 1] = DELETED_MARKER

\* ================================= the copies of the FAT (vfs/fat32.rs)
\* 0x0FFFFFFF + 1
LOW_28 == 268435456

\* get_fat_entry: the entry of the first copy, masked
raw_get_fat_entry(f, cluster) == f[1][cluster].lo

\* set_fat_entry that writes the first copy only (mutant)
raw_set_fat_entry_first(f, cluster, value) ==
    [f EXCEPT ![1][cluster] = Entry(f[1][cluster].hi, value % LOW_28)]

\* set_fat_entry: every copy gets (existing & 0xF0000000) | (value & 0x0FFFFFFF)
raw_set_fat_entry(f, cluster, value) ==
    [n \in 1 .. num_fats |->
        [f[n] EXCEPT ![cluster] = Entry(f[n][cluster].hi, value % LOW_28)]]

\* free_chain
RECURSIVE raw_free_chain(_, _)
raw_free_chain(f, cluster) ==
    IF cluster >= 2 /\ cluster < FAT32_EOC /\ cluster \in ClusterIds
    THEN raw_free_chain(raw_set_fat_entry(f, cluster, FAT32_FREE), raw_get_fat_entry(f, cluster))
    ELSE f

\* the values the driver and its callers pass: free, end of chain, a cluster
\* number, and a value with bit 28 set
EntryValues == {FAT32_FREE, FAT32_EOC, 3, LOW_28 + 4}

\* set_fat_entry(cluster, value)
copy_set ==
    \E cluster \in ClusterIds, value \in EntryValues :
        /\ fats' = raw_set_fat_entry(fats, cluster, value)
        /\ fc_last' = "set_fat_entry"
        /\ UNCHANGED <<hi0, schedVars, pmmVars, vmmVars, fdVars, vfsVars, fatVars, kbVars, tmpVars, diskVars, fhVars, irqVars, stackVars>>

\* allocate_cluster: the first cluster whose entry reads FREE
copy_allocate ==
    \E cluster \in ClusterIds :
        /\ raw_get_fat_entry(fats, cluster) = FAT32_FREE
        /\ \A o \in ClusterIds : o < cluster => raw_get_fat_entry(fats, o) # FAT32_FREE
        /\ fats' = raw_set_fat_entry(fats, cluster, FAT32_EOC)
        /\ fc_last' = "allocate_cluster"
        /\ UNCHANGED <<hi0, schedVars, pmmVars, vmmVars, fdVars, vfsVars, fatVars, kbVars, tmpVars, diskVars, fhVars, irqVars, stackVars>>

\* free_chain(start)
copy_free ==
    \E start \in ClusterIds :
        /\ fats' = raw_free_chain(fats, start)
        /\ fc_last' = "free_chain"
        /\ UNCHANGED <<hi0, schedVars, pmmVars, vmmVars, fdVars, vfsVars, fatVars, kbVars, tmpVars, diskVars, fhVars, irqVars, stackVars>>

CopyNext ==
    \/ copy_set
    \/ copy_allocate
    \/ copy_free

CopySpec == Init /\ [][CopyNext]_vars

SCANCODE_RELEASE == 240
SCANCODE_LEFT_SHIFT == 18
SCANCODE_RIGHT_SHIFT == 89
SCANCODE_CAPS_LOCK == 88

\* the scancodes the port delivers: a, Enter, left shift, caps lock, release
Scancodes == {28, 90, SCANCODE_LEFT_SHIFT, SCANCODE_CAPS_LOCK, SCANCODE_RELEASE}

\* Option<u8>
NoChar == [some |-> FALSE, v |-> 0]

SomeChar(c) == [some |-> TRUE, v |-> c]

\* scancode_to_ascii for the keys a and Enter; None for every other code
scancode_to_ascii(scancode, shift, caps) ==
    IF scancode = 28 THEN SomeChar(IF shift # caps THEN 65 ELSE 97)
    ELSE IF scancode = 90 THEN SomeChar(10)
    ELSE NoChar

\* Keyboard::push with its indices
kbd_push(k, c) ==
    IF (k.write_pos + 1) % BUFFER_SIZE # k.read_pos
    THEN [k EXCEPT !.unread = Append(@, c), !.write_pos = (@ + 1) % BUFFER_SIZE]
    ELSE k

\* Keyboard::pop with its indices: the byte, if any, and the Keyboard after
kbd_pop(k) ==
    IF k.read_pos = k.write_pos THEN [c |-> NoChar, k |-> k]
    ELSE [c |-> SomeChar(Head(k.unread)),
          k |-> [k EXCEPT !.unread = Tail(@), !.read_pos = (@ + 1) % BUFFER_SIZE]]

\* handle_scancode(scancode)
kbd_handle_scancode(k, scancode) ==
    IF scancode = SCANCODE_RELEASE THEN [k EXCEPT !.release_next = TRUE]
    ELSE IF k.release_next
         THEN [k EXCEPT !.release_next = FALSE,
                        !.shift_pressed = IF scancode \in {SCANCODE_LEFT_SHIFT, SCANCODE_RIGHT_SHIFT}
                                          THEN FALSE ELSE @]
    ELSE IF scancode \in {SCANCODE_LEFT_SHIFT, SCANCODE_RIGHT_SHIFT}
         THEN [k EXCEPT !.shift_pressed = TRUE]
    ELSE IF scancode = SCANCODE_CAPS_LOCK
         THEN [k EXCEPT !.caps_lock = ~@]
    ELSE IF scancode_to_ascii(scancode, k.shift_pressed, k.caps_lock) = NoChar THEN k
    ELSE kbd_push(k, scancode_to_ascii(scancode, k.shift_pressed, k.caps_lock).v)

\* keyboard_handler: the scancode is read from port 0x60 into a local, the
\* interrupt is acknowledged and schedule() is called; KEYBOARD is not touched
keyboard_irq ==
    \E scancode \in Scancodes :
        /\ irqs < MaxKeys
        /\ irqs' = irqs + 1
        /\ fed' = kbd_handle_scancode(fed, scancode)
        /\ UNCHANGED <<KEYBOARD, returned, expected, reads>>
        /\ UNCHANGED <<schedVars, pmmVars, vmmVars, fdVars, vfsVars, fatVars, kbVars, tmpVars, diskVars, fhVars, copyVars, stackVars>>

\* read_char(): KEYBOARD.lock().pop()
read_char ==
    /\ reads < MaxKeys
    /\ reads' = reads + 1
    /\ KEYBOARD' = kbd_pop(KEYBOARD).k
    /\ returned' = IF kbd_pop(KEYBOARD).c = NoChar THEN returned
                   ELSE Append(returned, kbd_pop(KEYBOARD).c.v)
    /\ fed' = kbd_pop(fed).k
    /\ expected' = IF kbd_pop(fed).c = NoChar THEN expected
                   ELSE Append(expected, kbd_pop(fed).c.v)
    /\ UNCHANGED irqs
    /\ UNCHANGED <<schedVars, pmmVars, vmmVars, fdVars, vfsVars, fatVars, kbVars, tmpVars, diskVars, fhVars, copyVars, stackVars>>

IrqNext ==
    \/ keyboard_irq
    \/ read_char

IrqSpec == Init /\ [][IrqNext]_vars

\* ------------------------------------------------------------ claim C32
\* C32: the bytes returned by successive read_char() calls are the ASCII
\* bytes produced from the scancodes of the keyboard interrupts, in arrival
\* order and without duplication, less the bytes that arrived while 255
\* bytes were unread; the read and write indices stay below 256.
C32_ReadCharReturnsInterruptBytes ==
    /\ returned = expected
    /\ KEYBOARD.read_pos < BUFFER_SIZE
    /\ KEYBOARD.write_pos < BUFFER_SIZE

\* ------------------------------------------------------------ claim C33
\* C33: schedule() selects the first Ready task in cyclic queue order after
\* current, so a task is not selected a second time while another task has
\* been Ready without a break since its previous selection: between two
\* consecutive selections of a task every other task that stayed Ready has
\* been selected, also when reaping shifts indices and tasks are appended.
C33_RoundRobin ==
    [][last'.switch =>
          \A id \in ReadyIds(tasks') : At(tasks', current').id \notin served[id]]_vars

\* a task is selected in a queue of three while another one has been Ready
\* since the selection before, so that it has waited through both
C33_Witness ==
    /\ last.switch /\ cpu = "ok"
    /\ Len(tasks) = 3
    /\ \E id \in ReadyIds(tasks) : Cardinality(served[id]) = 2 /\ Cur.id \in served[id]

\* ======================================= Fat32Fs::remove (vfs/fat32.rs)
\* the names given to remove: f, Ab, A, a and a/b
UnlinkPaths ==
    {<<>>, <<<<102>>>>, <<<<65, 98>>>>, <<<<65>>>>, <<<<97>>>>, <<<<97>>, <<98>>>>}

\* remove that leaves the chain of the file allocated (mutant)
unlink_chain_kept(d, cluster) == d

\* the free_chain call of remove, made when entry.cluster() >= 2
unlink_chain(d, cluster) == IF cluster >= 2 THEN free_chain(d, cluster) ELSE d

\* Fat32Fs::remove
fat32_remove ==
    \E parts \in UnlinkPaths :
      \E d \in {Disk(fat, store)} :
      \E up \in {inner_split_path(d, parts)} :
        /\ IF ~up.ok
           THEN /\ dir_last' = RmCall("remove", parts, FALSE, "InvalidPath", d)
                /\ UNCHANGED <<fat, store>>
           ELSE \E entry \in {inner_find_in_directory(d, up.cluster, parts[Len(parts)])} :
                  IF ~entry.found
                  THEN /\ dir_last' = RmCall("remove", parts, FALSE, "NotFound", d)
                       /\ UNCHANGED <<fat, store>>
                  ELSE IF entry.dir
                  THEN /\ dir_last' = RmCall("remove", parts, FALSE, "IsADirectory", d)
                       /\ UNCHANGED <<fat, store>>
                  ELSE \E freed \in {unlink_chain(d, entry.cluster)} :
                       \E gone \in {remove_dir_entry(freed, up.cluster, entry)} :
                         /\ fat' = IF gone.err # "" THEN freed.fat ELSE gone.fat
                         /\ store' = IF gone.err # "" THEN freed.store ELSE gone.store
                         /\ dir_last' = RmCall("remove", parts, gone.err = "",
                                               IF gone.err # "" THEN "IoError" ELSE "", d)
        /\ UNCHANGED <<ch_last, schedVars, pmmVars, vmmVars, fdVars, vfsVars, fatVars, kbVars, tmpVars, fhVars, copyVars, irqVars, stackVars>>

\* a volume whose root holds the files that were put there before it was
\* mounted: f without clusters, and one or both of Ab (a long name and a
\* chain of two clusters) and A (a short name and one cluster)
UnlinkInit ==
    /\ BootSched
    /\ BootPmm
    /\ BootVmm
    /\ BootFd
    /\ BootVfs
    /\ BootFat
    /\ BootKb
    /\ BootTmp
    /\ BootFh
    /\ BootCopies
    /\ BootIrq
    /\ BootStacks
    /\ \E long \in BOOLEAN, short \in BOOLEAN, first \in BOOLEAN :
       \E blank \in {Disk([c \in ClusterIds |->
                              IF c = root_cluster THEN FAT32_EOC
                              ELSE IF long /\ c = 3 THEN 5
                              ELSE IF long /\ c = 5 THEN FAT32_EOC
                              ELSE IF short /\ c = 4 THEN FAT32_EOC
                              ELSE FAT32_FREE],
                          [c \in ClusterIds |-> zeroed])} :
       \E d0 \in {IF first THEN add_dir_entry(blank, root_cluster, <<102>>, ATTR_ARCHIVE, 0, 0)
                  ELSE blank} :
       \E d1 \in {IF long
                  THEN add_dir_entry(d0, root_cluster, <<65, 98>>, ATTR_ARCHIVE, 3, bytes_per_cluster + 1)
                  ELSE d0} :
       \E d2 \in {IF short THEN add_dir_entry(d1, root_cluster, <<65>>, ATTR_ARCHIVE, 4, 7)
                  ELSE d1} :
       \E d3 \in {IF first THEN d2
                  ELSE add_dir_entry(d2, root_cluster, <<102>>, ATTR_ARCHIVE, 0, 0)} :
        /\ fat = d3.fat
        /\ store = d3.store
    /\ ch_last = ChainCall("new", 0, 0, TRUE, 0, <<>>)
    /\ dir_last = DirCall("new", <<>>, TRUE, "", FALSE, <<>>, <<>>)

UnlinkNext ==
    \/ fat32_remove
    \/ fat32_mkdir

UnlinkSpec == UnlinkInit /\ [][UnlinkNext]_vars

\* ------------------------------------------------------------ claim C34
\* name, first cluster and size of the entries read_directory lists
listing(d, dir_cluster) ==
    the({[k \in 1 .. Len(entries) |->
             <<entries[k].name, entries[k].short_entry.cluster, entries[k].short_entry.size>>] :
            entries \in {inner_read_directory(d, dir_cluster)}})

\* a sequence without its k-th element
without(seq, k) == SubSeq(seq, 1, k - 1) \o SubSeq(seq, k + 1, Len(seq))

\* the first slot bytes of the directory's 32-byte slots
slot_marks(d, dir_cluster) ==
    the({[t \in 1 .. (Len(data) \div DIR_ENTRY_SIZE) |-> data[DIR_ENTRY_SIZE * (t - 1) + 1]] :
            data \in {inner_read_chain(d, dir_cluster)}})

\* C34: a successful remove(path) of a regular file sets every FAT entry of
\* the file's chain to FREE, puts the deleted marker 0xE5 on the file's
\* short entry and on all of its LFN entries, and leaves name, first cluster
\* and size of every other directory entry as they were.
C34_RemoveFreesChainAndMarksEntries ==
    (dir_last.op = "remove" /\ dir_last.ok) =>
        \E before \in {dir_last.before} :
        \E now \in {Disk(fat, store)} :
        \E dir \in {inner_split_path(before, dir_last.path).cluster} :
        \E was \in {inner_read_directory(before, dir)} :
        \E k \in {CHOOSE k \in 1 .. Len(was) :
                     /\ to_lowercase(was[k].name) = to_lowercase(dir_last.path[Len(dir_last.path)])
                     /\ \A o \in 1 .. (k - 1) :
                           to_lowercase(was[o].name) # to_lowercase(was[k].name)} :
        \E short_slot \in {CHOOSE t \in 1 .. Len(slot_marks(before, dir)) :
                              /\ is_listed(SubSeq(inner_read_chain(before, dir),
                                                  DIR_ENTRY_SIZE * (t - 1) + 1, DIR_ENTRY_SIZE * t))
                              /\ Cardinality({o \in 1 .. (t - 1) :
                                    is_listed(SubSeq(inner_read_chain(before, dir),
                                                     DIR_ENTRY_SIZE * (o - 1) + 1, DIR_ENTRY_SIZE * o))})
                                     = k - 1} :
        \E marks \in {slot_marks(now, dir)} :
            /\ \A c \in ClusterIds :
                  (\E n \in 1 .. Len(follow(before.fat, was[k].short_entry.cluster, MaxClusters + 1)) :
                       follow(before.fat, was[k].short_entry.cluster, MaxClusters + 1)[n] = c)
                      => fat[c] = FAT32_FREE
            /\ marks[short_slot] = DELETED_MARKER
            /\ \A t \in 1 .. (short_slot - 1) :
                  (\A o \in t .. (short_slot - 1) :
                       slot_is_lfn(SubSeq(inner_read_chain(before, dir),
                                          DIR_ENTRY_SIZE * (o - 1) + 1, DIR_ENTRY_SIZE * o)))
                      => marks[t] = DELETED_MARKER
            /\ listing(now, dir) = without(listing(before, dir), k)
            /\ \A o \in 1 .. Len(was) :
                  (o # k /\ is_directory(was[o]))
                      => listing(now, was[o].short_entry.cluster)
                             = listing(before, was[o].short_entry.cluster)

\* remove has just taken the file Ab, which has an LFN entry and a chain of
\* two clusters, out of a root directory that lists another file after it
C34_Witness ==
    /\ dir_last.op = "remove"
    /\ dir_last.ok
    /\ dir_last.path = <<<<65, 98>>>>
    /\ dir_last.before.fat[3] = 5
    /\ fat[3] = FAT32_FREE /\ fat[5] = FAT32_FREE
    /\ \E k \in 1 .. Len(listing(Disk(fat, store), root_cluster)) :
          listing(Disk(fat, store), root_cluster)[k][2] = 4

\* ------------------------------------------------------------ claim C35
\* C35: when schedule() switches context, the incoming task is another task
\* than the outgoing one, and the stack pointer it loads points at the frame
\* Task::new synthesised or at the frame stored when the incoming task was
\* switched out last, never at a frame the task has been resumed from.
C35_SwitchLoadsFreshFrame ==
    last.switch => (~last.self /\ last.loaded \in {"initial", "saved"})

\* =========== kernel entry stacks (cpu/syscall.rs, cpu/gdt.rs, sched/mod.rs)
\* place[t] is "kernel" (the boot task, on its own stack), "new" (a user task
\* that has not run: its frame is the one Task::new_user wrote on the task's
\* own stack), "user" (in user mode), "syscall" (in syscall_handler, on
\* SYSCALL_STACK), "dead" (after exit), and for a task that is switched out
\* "out_kernel",
\* "out_user" (preempted in user mode: interrupt frame and switch_context
\* frame on the rsp0 stack) or "out_syscall" (preempted inside a system call:
\* register frame, interrupt frame and switch_context frame on SYSCALL_STACK,
\* user rsp in CPU_LOCAL.user_rsp).
\* Slots count from the top of a stack: every entry starts at slot 1.

\* the tasks whose saved context lies on SYSCALL_STACK and in CPU_LOCAL
OutInSyscall(t) == {o \in DOMAIN place : o # t /\ place[o] = "out_syscall"}

\* the tasks whose saved context lies on the rsp0 stack
OutInUser(t) == {o \in DOMAIN place : o # t /\ place[o] = "out_user"}

\* next_ready: every task that is switched out is Ready
next_task(t) ==
    the({IF others = {} THEN t
         ELSE IF \E o \in others : o > t THEN CHOOSE o \in others : o > t /\ \A p \in others : p > t => o <= p
         ELSE CHOOSE o \in others : \A p \in others : o <= p :
            others \in {{o \in DOMAIN place : o # t /\ place[o] # "dead"}}})

\* where a task is once switch_context has loaded its stack pointer and the
\* code it returns into has run up to the next point of interest
resumed(where) ==
    IF where = "new" THEN "user"
    ELSE IF where = "out_user" THEN "user"
    ELSE IF where = "out_syscall" THEN "syscall"
    ELSE "kernel"

\* syscall_entry: swapgs; mov gs:[0], rsp; mov rsp, gs:[8]; the pushes
syscall_entry ==
    /\ place[running] = "user"
    /\ user_rsp' = running
    /\ SYSCALL_STACK' = [SYSCALL_STACK EXCEPT ![1] = running]
    /\ place' = [place EXCEPT ![running] = "syscall"]
    /\ st_last' = StackStep("syscall_entry", running, OutInSyscall(running))
    /\ UNCHANGED <<rsp0_stack, running>>
    /\ UNCHANGED <<schedVars, pmmVars, vmmVars, fdVars, vfsVars, fatVars, kbVars, tmpVars, diskVars, fhVars, copyVars, irqVars>>

\* the pops of syscall_entry; mov rsp, gs:[0]; swapgs; sysretq
syscall_return ==
    /\ place[running] = "syscall"
    /\ place' = [place EXCEPT ![running] = "user"]
    /\ st_last' = StackStep("sysretq", running, {})
    /\ UNCHANGED <<SYSCALL_STACK, rsp0_stack, user_rsp, running>>
    /\ UNCHANGED <<schedVars, pmmVars, vmmVars, fdVars, vfsVars, fatVars, kbVars, tmpVars, diskVars, fhVars, copyVars, irqVars>>

\* a keyboard interrupt in user mode: the CPU loads rsp from the TSS and
\* pushes the interrupt frame, keyboard_handler calls schedule(), and
\* switch_context pushes the callee-saved registers and switches
irq_in_user ==
    /\ place[running] = "user"
    /\ rsp0_stack' = [slot \in 1 .. 2 |-> running]
    /\ place' = [place EXCEPT ![running] = "out_user",
                              ![next_task(running)] = resumed(place[next_task(running)])]
    /\ running' = next_task(running)
    /\ st_last' = StackStep("irq_in_user", running, OutInUser(running))
    /\ UNCHANGED <<SYSCALL_STACK, user_rsp>>
    /\ UNCHANGED <<schedVars, pmmVars, vmmVars, fdVars, vfsVars, fatVars, kbVars, tmpVars, diskVars, fhVars, copyVars, irqVars>>

\* a keyboard interrupt inside a system call (SFMask is empty, interrupts
\* stay enabled): the frames go below the register frame on SYSCALL_STACK
irq_in_syscall ==
    /\ place[running] = "syscall"
    /\ SYSCALL_STACK' = [SYSCALL_STACK EXCEPT ![2] = running, ![3] = running]
    /\ place' = [place EXCEPT ![running] = "out_syscall",
                              ![next_task(running)] = resumed(place[next_task(running)])]
    /\ running' = next_task(running)
    /\ st_last' = StackStep("irq_in_syscall", running, OutInSyscall(running))
    /\ UNCHANGED <<rsp0_stack, user_rsp>>
    /\ UNCHANGED <<schedVars, pmmVars, vmmVars, fdVars, vfsVars, fatVars, kbVars, tmpVars, diskVars, fhVars, copyVars, irqVars>>

\* SYS_EXIT: syscall_handler calls sched::exit(), which marks the task Dead
\* and calls schedule(); switch_context pushes its frame on SYSCALL_STACK
sys_exit ==
    /\ place[running] = "syscall"
    /\ next_task(running) # running
    /\ SYSCALL_STACK' = [SYSCALL_STACK EXCEPT ![2] = running]
    /\ place' = [place EXCEPT ![running] = "dead",
                              ![next_task(running)] = resumed(place[next_task(running)])]
    /\ running' = next_task(running)
    /\ st_last' = StackStep("sys_exit", running, OutInSyscall(running))
    /\ UNCHANGED <<rsp0_stack, user_rsp>>
    /\ UNCHANGED <<schedVars, pmmVars, vmmVars, fdVars, vfsVars, fatVars, kbVars, tmpVars, diskVars, fhVars, copyVars, irqVars>>

\* a keyboard interrupt while the boot task runs: the frames go on the
\* stack the boot task runs on
irq_in_kernel ==
    /\ place[running] = "kernel"
    /\ place' = [place EXCEPT ![running] = "out_kernel",
                              ![next_task(running)] = resumed(place[next_task(running)])]
    /\ running' = next_task(running)
    /\ st_last' = StackStep("irq_in_kernel", running, {})
    /\ UNCHANGED <<SYSCALL_STACK, rsp0_stack, user_rsp>>
    /\ UNCHANGED <<schedVars, pmmVars, vmmVars, fdVars, vfsVars, fatVars, kbVars, tmpVars, diskVars, fhVars, copyVars, irqVars>>

StackNext ==
    \/ syscall_entry
    \/ syscall_return
    \/ irq_in_user
    \/ irq_in_syscall
    \/ irq_in_kernel
    \/ sys_exit

StackSpec == Init /\ [][StackNext]_vars

\* ------------------------------------------------------------ claim C36
\* C36: while a task is switched out, the memory that holds its saved kernel
\* context (callee-saved registers, return address, and the saved user rsp
\* of a task preempted inside a system call) is not written by the interrupt
\* entry, the syscall entry or the context switch of another task.
C36_SavedContextNotOverwritten == st_last.victims = {}

\* ===================== chains in the FAT (vfs/fat32.rs), without the data
\* allocate_cluster: the table after it and the cluster, 0 for the error
raw_allocate_cluster(f) ==
    the({IF free = {} THEN [f |-> f, ret |-> 0]
         ELSE the({[f |-> raw_set_fat_entry(f, cluster, FAT32_EOC), ret |-> cluster] :
                      cluster \in {CHOOSE c \in free : \A o \in free : c <= o}}) :
            free \in {{c \in ClusterIds : raw_get_fat_entry(f, c) = FAT32_FREE}}})

\* extend_chain
raw_extend_chain(f, last_cluster) ==
    the({IF a.ret = 0 THEN a
         ELSE [f |-> raw_set_fat_entry(a.f, last_cluster, a.ret), ret |-> a.ret] :
            a \in {raw_allocate_cluster(f)}})

\* the last cluster linked to the first cluster of the volume (mutant)
raw_end_chain_linked(f, cluster) == raw_set_fat_entry(f, cluster, root_cluster)

\* self.set_fat_entry(cluster, FAT32_EOC) at the end of write_chain
raw_end_chain(f, cluster) == raw_set_fat_entry(f, cluster, FAT32_EOC)

\* the for loop of write_chain from cluster number i on, and the
\* set_fat_entry(cluster, FAT32_EOC) after it; write_cluster of a cluster
\* below 2 does not return Ok, and `?` ends the call
RECURSIVE raw_write_clusters(_, _, _, _)
raw_write_clusters(f, clusters_needed, i, cluster) ==
    IF cluster < 2 THEN f
    ELSE IF i + 1 >= clusters_needed THEN raw_end_chain(f, cluster)
    ELSE IF raw_get_fat_entry(f, cluster) >= FAT32_EOC
         THEN the({IF e.ret = 0 THEN e.f
                   ELSE raw_write_clusters(e.f, clusters_needed, i + 1, e.ret) :
                      e \in {raw_extend_chain(f, cluster)}})
    ELSE raw_write_clusters(f, clusters_needed, i + 1, raw_get_fat_entry(f, cluster))

\* write_chain(start, data) with data of clusters_needed clusters
raw_write_chain(f, start, clusters_needed) ==
    IF clusters_needed = 0 THEN f
    ELSE IF start < 2
         THEN the({IF a.ret = 0 THEN f
                   ELSE raw_write_clusters(a.f, clusters_needed, 0, a.ret) :
                      a \in {raw_allocate_cluster(f)}})
    ELSE raw_write_clusters(f, clusters_needed, 0, start)

\* write_chain with any start a caller may hold: 0, the first cluster of a
\* chain, or a cluster number kept from before the chain was freed
link_write ==
    \E start \in {0} \cup ClusterIds, clusters_needed \in 0 .. MaxChain :
        /\ fats' = raw_write_chain(fats, start, clusters_needed)
        /\ fc_last' = "write_chain"
        /\ UNCHANGED <<hi0, schedVars, pmmVars, vmmVars, fdVars, vfsVars, fatVars, kbVars, tmpVars, diskVars, fhVars, irqVars, stackVars>>

LinkNext ==
    \/ link_write
    \/ copy_allocate
    \/ copy_free

LinkSpec == Init /\ [][LinkNext]_vars

\* ------------------------------------------------------------ claim C40
\* what get_fat_entry returns for every cluster
fat_view == [c \in ClusterIds |-> raw_get_fat_entry(fats, c)]

\* C40: from a volume whose chains are acyclic no sequence of write_chain,
\* allocate_cluster and free_chain calls, with whatever start cluster, makes
\* the table lead from a cluster back to itself, so that the loops of
\* read_chain, write_chain, free_chain and get_last_cluster end.
C40_ChainsStayAcyclic ==
    \A c \in ClusterIds : Len(follow(fat_view, c, MaxClusters + 1)) <= MaxClusters

\* write_chain has linked clusters into a chain of MaxChain clusters that
\* does not follow the order of the cluster numbers
C40_Witness ==
    /\ fc_last = "write_chain"
    /\ \E c \in ClusterIds :
        /\ Len(follow(fat_view, c, MaxClusters + 1)) >= 3
        /\ follow(fat_view, c, MaxClusters + 1)[2] < c

\* =========== files held open on FAT32 (vfs/fat32.rs, cpu/syscall.rs, vfs/fd.rs)
\* FdKind::File(Box<FatFileHandle>)
FatHandle(path, cluster, position, data, dirty, flags) ==
    [kind |-> "File", entries |-> <<>>, position |-> position, path |-> path,
     cluster |-> cluster, data |-> data, dirty |-> dirty, flags |-> flags]

\* update_dir_entry with the short entry that sync_file has changed
update_dir_entry(d, dir_cluster, entry, new_cluster, size) ==
    the({IF entry.at + (entry.count - 1) * DIR_ENTRY_SIZE + DIR_ENTRY_SIZE > Len(data)
         THEN [d EXCEPT !.err = "invalid entry offset"]
         ELSE write_chain(d, dir_cluster,
                          splice(data, entry.at + (entry.count - 1) * DIR_ENTRY_SIZE,
                                 short_serialize([entry.short EXCEPT !.cluster = new_cluster,
                                                                      !.size = size]))) :
            data \in {inner_read_chain(d, dir_cluster)}})

\* Fat32Fs::sync_file: the volume after it, .err "" for Ok
sync_file(d, path, old_cluster, data) ==
    the({IF ~up.ok THEN [d EXCEPT !.err = "InvalidPath"]
         ELSE the({IF ~entry.found THEN [d EXCEPT !.err = "NotFound"]
                   ELSE the({IF w.err # "" THEN [w EXCEPT !.err = "IoError"]
                             ELSE update_dir_entry(w, up.cluster, entry, w.ret, Len(data)) :
                                w \in {IF data = <<>>
                                       THEN [(IF old_cluster >= 2 THEN free_chain(d, old_cluster) ELSE d)
                                                EXCEPT !.ret = 0]
                                       ELSE write_chain(d, old_cluster, data)}}) :
                      entry \in {inner_find_in_directory(d, up.cluster, path[Len(path)])}}) :
            up \in {inner_split_path(d, path)}})

\* Drop for FatFileHandle: the volume after it; the result of sync_file is
\* thrown away
drop_handle(d, handle) ==
    IF handle.dirty THEN [sync_file(d, handle.path, handle.cluster, handle.data) EXCEPT !.err = ""]
    ELSE d

\* Fat32Fs::open of a path that resolve_path finds
Fat32Fs_open(d, path, flags) ==
    the({IF ~r.ok \/ ~r.entry.found THEN [ok |-> FALSE, err |-> "NotFound", handle |-> None]
         ELSE IF r.entry.dir THEN [ok |-> FALSE, err |-> "IsADirectory", handle |-> None]
         ELSE the({[ok |-> TRUE, err |-> "",
                    handle |-> FatHandle(path, r.entry.cluster,
                                         IF contains(flags, O_APPEND) THEN Len(data) ELSE 0,
                                         IF contains(flags, O_TRUNC) THEN <<>> ELSE data,
                                         contains(flags, O_TRUNC), flags)] :
                     data \in {IF r.entry.cluster >= 2
                               THEN SubSeq(inner_read_chain(d, r.entry.cluster), 1, r.entry.short.size)
                               ELSE <<>>}}) :
            r \in {inner_resolve_path(d, path, 1, root_cluster)}})

\* the descriptors that hold a file
FileFds == {fd \in 3 .. (MAX_FDS - 1) : fds[fd].kind = "File"}

\* SYS_OPEN without O_DIRECTORY: vfs::open, then table.alloc(FdKind::File(handle));
\* a handle that alloc does not take is dropped
fat_sys_open ==
    \E path \in {<<<<102>>>>, <<<<97>>>>}, flags \in {O_RDWR, O_RDWR + O_TRUNC} :
      \E d \in {Disk(fat, store)} :
      \E o \in {Fat32Fs_open(d, path, flags)} :
        /\ IF ~o.ok
           THEN /\ dir_last' = RmCall("open", path, FALSE, o.err, d)
                /\ UNCHANGED <<fat, store, fds>>
           ELSE \E a \in {alloc(fds, o.handle)} :
                \E after \in {IF a.ok THEN d ELSE drop_handle(d, o.handle)} :
                  /\ fds' = a.fds
                  /\ fat' = after.fat
                  /\ store' = after.store
                  /\ dir_last' = RmCall("open", path, a.ok, a.err, d)
        /\ UNCHANGED <<ch_last, root_dir, fd_last, schedVars, pmmVars, vmmVars, vfsVars, fatVars, kbVars, tmpVars, fhVars, copyVars, irqVars, stackVars>>

\* SYS_WRITE on a descriptor that holds a file: FatFileHandle::write
fat_sys_write ==
    \E fd \in FileFds, buf \in {<<9>>} :
      \E handle \in {fds[fd]} :
        /\ handle.position < MaxFile
        /\ fds' = [fds EXCEPT ![fd] =
                      IF ~is_writable(handle.flags) THEN handle
                      ELSE [handle EXCEPT
                               !.data = [k \in 1 .. greatest({Len(handle.data), handle.position + Len(buf)}, 0) |->
                                            IF k > handle.position /\ k <= handle.position + Len(buf)
                                            THEN buf[k - handle.position]
                                            ELSE IF k <= Len(handle.data) THEN handle.data[k]
                                            ELSE 0],
                               !.position = handle.position + Len(buf),
                               !.dirty = TRUE]]
        /\ dir_last' = RmCall("write", handle.path, is_writable(handle.flags), "", Disk(fat, store))
        /\ UNCHANGED <<fat, store, ch_last, root_dir, fd_last, schedVars, pmmVars, vmmVars, vfsVars, fatVars, kbVars, tmpVars, fhVars, copyVars, irqVars, stackVars>>

\* SYS_CLOSE on a descriptor that holds a file: FdTable::close drops the handle
fat_sys_close ==
    \E fd \in FileFds :
      \E d \in {Disk(fat, store)} :
      \E after \in {drop_handle(d, fds[fd])} :
        /\ fds' = close(fds, fd).fds
        /\ fat' = after.fat
        /\ store' = after.store
        /\ dir_last' = RmCall("close", fds[fd].path, TRUE, "", d)
        /\ UNCHANGED <<ch_last, root_dir, fd_last, schedVars, pmmVars, vmmVars, vfsVars, fatVars, kbVars, tmpVars, fhVars, copyVars, irqVars, stackVars>>

\* SYS_MKDIR of /a while files are open
fat_sys_mkdir ==
    mkdir_path(<<<<97>>>>)

\* the task has opened directories until one descriptor was left, and
\* the root of the volume holds the file f: 513 zero bytes in the clusters 3
\* and 4
SyncInit ==
    /\ BootSched
    /\ BootPmm
    /\ BootVmm
    /\ BootVfs
    /\ BootFat
    /\ BootKb
    /\ BootTmp
    /\ BootFh
    /\ BootCopies
    /\ BootIrq
    /\ BootStacks
    /\ root_dir = <<>>
    /\ fds = [fd \in 0 .. (MAX_FDS - 1) |->
                 IF fd < 3 THEN FdTable_new[fd]
                 ELSE IF fd < MAX_FDS - 1 THEN Fd("Directory", <<>>, 0)
                 ELSE None]
    /\ fd_last = FdCall("new", 0, TRUE, 0, "")
    /\ \E blank \in {Disk([c \in ClusterIds |->
                              IF c = root_cluster THEN FAT32_EOC
                              ELSE IF c = 3 THEN 4
                              ELSE IF c = 4 THEN FAT32_EOC
                              ELSE FAT32_FREE],
                          [c \in ClusterIds |-> zeroed])} :
       \E d \in {add_dir_entry(blank, root_cluster, <<102>>, ATTR_ARCHIVE, 3, bytes_per_cluster + 1)} :
        /\ fat = d.fat
        /\ store = d.store
    /\ ch_last = ChainCall("new", 0, 0, TRUE, 0, <<>>)
    /\ dir_last = DirCall("new", <<>>, TRUE, "", FALSE, <<>>, <<>>)

SyncNext ==
    \/ fat_sys_open
    \/ fat_sys_write
    \/ fat_sys_close
    \/ fat_sys_mkdir

SyncSpec == SyncInit /\ [][SyncNext]_vars

\* ------------------------------------------------------------ claim C37
\* the entries of a directory other than "." and "..", as <<directory
\* cluster, index, first cluster, is a directory>>
children(d, dir_cluster) ==
    the({{<<dir_cluster, k, entries[k].short_entry.cluster, is_directory(entries[k])>> :
             k \in {j \in 1 .. Len(entries) : entries[j].name \notin {<<46>>, <<46, 46>>}}} :
            entries \in {inner_read_directory(d, dir_cluster)}})

\* the entries of the directories down to the second level below the root
all_entries(d) ==
    the({the({top \cup second \cup
              UNION {children(d, e[3]) : e \in {x \in second : x[4] /\ x[3] \in ClusterIds}} :
                 second \in {UNION {children(d, e[3]) :
                                       e \in {x \in top : x[4] /\ x[3] \in ClusterIds}}}}) :
            top \in {children(d, root_cluster)}})

\* the clusters the table leads through from a first cluster
chain_set(d, cluster) ==
    the({{visited[k] : k \in 1 .. Len(visited)} :
            visited \in {follow(d.fat, cluster, MaxClusters + 1)}})

\* C37: after any interleaving of open, write, truncating open, close,
\* unlink, mkdir and rmdir through several FAT32 handles, two of them on one
\* file included, the chains of distinct directory entries share no cluster,
\* and no chain holds a cluster below 2 or a cluster whose entry is FREE.
C37_ChainsDisjointAndWellFormed ==
    \E d \in {Disk(fat, store)} :
    \E entries \in {all_entries(d)} :
        /\ \A e1 \in entries, e2 \in entries :
              e1 # e2 => chain_set(d, e1[3]) \cap chain_set(d, e2[3]) = {}
        /\ \A e \in entries :
              /\ e[3] \in {0} \cup ClusterIds
              /\ \A c \in chain_set(d, e[3]) : d.fat[c] # FAT32_FREE /\ d.fat[c] >= 2

\* ------------------------------------------------------------ claim C38
\* C38: after any sequence of successful or failed open, write, shrinking
\* rewrite, close, unlink, mkdir and rmdir, every cluster whose FAT entry is
\* not FREE lies on the chain of the root directory or of a directory entry
\* that is reachable from the root.
C38_NoLeakedCluster ==
    \E d \in {Disk(fat, store)} :
    \E entries \in {all_entries(d)} :
        \A c \in ClusterIds :
            d.fat[c] # FAT32_FREE =>
                \/ c \in chain_set(d, root_cluster)
                \/ \E e \in entries : c \in chain_set(d, e[3])

\* ------------------------------------------------------------ claim C39
\* C39: an open system call that returns u64::MAX leaves the volume as it
\* was; with the descriptor table full, an open with O_TRUNC has not emptied
\* the file.
C39_FailedOpenChangesNothing ==
    (dir_last.op = "open" /\ ~dir_last.ok) =>
        (fat = dir_last.before.fat /\ store = dir_last.before.store)
====
